---- MODULE Spec2Model ----
(***************************************************************************)
(* Verification model of ffts-grep (rust-fts5-indexer).                    *)
(*                                                                         *)
(* Part I   - the project directory as a small filesystem and the atomic   *)
(*            database operations of health.rs, indexer.rs and main.rs as  *)
(*            interleaved processes (specifications Spec, SpecAutoInit,    *)
(*            SpecSolo).                                                   *)
(* Part II  - the file table, the FTS rows and the three triggers of db.rs *)
(*            (specification SpecStore).                                   *)
(* Part III - the directory walk and the per-entry symlink policy of       *)
(*            indexer.rs (specification SpecWalk).                         *)
(***************************************************************************)
EXTENDS Integers, Sequences, FiniteSets, TLC

\* ------------------------------------------------------------------ bounds
\* Number of concurrently running operations (processes or threads).
NProcs == 2
\* Number of distinct indexable files the project directory may hold.
NFiles == 1

Procs == 1..NProcs
Files == 1..NFiles

\* ------------------------------------------------------- program constants
\* constants.rs: APPLICATION_ID_I32 = 0xA17E_6D42, held in the header's
\* signed 32-bit field as the same bit pattern (0xA17E6D42 - 2^32).
APPLICATION_ID_I32 == -1585550014
\* The application id of a database file nobody stamped (SQLite's default).
UnstampedId == 0

\* ------------------------------------------------------------ file contents
\* What a path of the project directory holds.  kind:
\*   "none"        no file
\*   "garbage"     a file that is not a database (PRAGMA application_id fails)
\*   "unreadable"  a file that cannot be opened read-only
\*   "db"          a database file: application id, whether the schema is
\*                 complete, the paths of its file table, whether the count
\*                 query works (intact), whether the main file holds all of
\*                 its data (sealed: nothing is left in a -wal file), and
\*                 which operation built it (0: it predates the run).
NoFile ==
    [kind |-> "none", app |-> UnstampedId, schema |-> FALSE, rows |-> {},
     intact |-> FALSE, sealed |-> FALSE, owner |-> 0]

Garbage == [NoFile EXCEPT !.kind = "garbage"]

Unreadable == [NoFile EXCEPT !.kind = "unreadable"]

DbFile(app, schema, rows, intact, sealed, owner) ==
    [kind |-> "db", app |-> app, schema |-> schema, rows |-> rows,
     intact |-> intact, sealed |-> sealed, owner |-> owner]

\* The databases the directory may hold before any operation starts.
InitialDbs ==
    {NoFile, Garbage, Unreadable}
    \cup {DbFile(UnstampedId, s, {}, TRUE, TRUE, 0) : s \in BOOLEAN}
    \cup {DbFile(APPLICATION_ID_I32, FALSE, {}, TRUE, TRUE, 0)}
    \cup {DbFile(APPLICATION_ID_I32, TRUE, r, TRUE, TRUE, 0) : r \in SUBSET Files}
    \cup {DbFile(APPLICATION_ID_I32, TRUE, {}, FALSE, TRUE, 0)}

\* ---------------------------------------------------------------- variables
VARIABLES
    disk,      \* the indexable files of the project directory
    db,        \* what <DB_NAME> holds
    dbAux,     \* whether <DB_NAME>-shm / <DB_NAME>-wal exist
    tmp,       \* what each temp path holds
    tmpAux,    \* whether the temp path's -shm / -wal exist
    backup,    \* what <DB_NAME>.backup.<unix_ts> holds
    op,        \* the operation each process runs
    pc,        \* each process's position in its operation
    ckptOk,    \* each process's checkpoint_ok
    res,       \* each process's result: "none", "ok", "err"
    renamed,   \* history: the process renamed its temp file onto <DB_NAME>
    fault,     \* history: a store or filesystem call failed on its own
    db0,       \* history: what <DB_NAME> held before the run
    opts       \* each search's options: no_auto_init, refresh

fsVars ==
    <<disk, db, dbAux, tmp, tmpAux, backup, op, pc, ckptOk, res, renamed,
      fault, db0, opts>>

\* The store of Part II: one open database.
VARIABLES
    files,     \* the rows of table files
    fts,       \* the rows of the FTS index files_fts
    fired,     \* history: the triggers the last statement fired
    clock,     \* Utc::now().timestamp()
    call       \* history: the last call on the store and its arguments

storeVars == <<files, fts, fired, clock, call>>

\* The walk of Part III: one index_directory run.
VARIABLES
    tree,            \* the filesystem: what each absolute path holds
    follow_symlinks, \* IndexerConfig.follow_symlinks
    todo,            \* the entries the walker has yet to yield
    yielded,         \* the entries the walker has yielded
    readFrom         \* history: record path and the real file it was read from

walkVars == <<tree, follow_symlinks, todo, yielded, readFrom>>

\* The index_directory runs of Part IV, each on its own connection to one
\* database file.
VARIABLES
    ixKinds,             \* what process_entry meets at each entry of the walk
    ixFaults,            \* whether the database may reject a statement
    ixRows,              \* committed rows: who wrote the record of each path
    ixLock,              \* the connection holding the write lock, 0 for none
    ixPc,                \* each run's position in index_directory
    ixNext,              \* each run's next entry of the walk
    batch_count,         \* each run's batch_count
    transaction_started, \* each run's transaction_started
    ixPending,           \* each run's writes inside its open transaction
    ixStats,             \* each run's IndexStats: files_indexed, files_skipped
    ixRes,               \* each run's result
    ixHist               \* history of each run: what it did on its way out

indexVars ==
    <<ixKinds, ixFaults, ixRows, ixLock, ixPc, ixNext, batch_count,
      transaction_started, ixPending, ixStats, ixRes, ixHist>>

\* Project-root detection of Part V.
VARIABLES
    dirs,      \* the ancestors of the start directory, nearest first
    ancestor,  \* the ancestor the loop of find_project_root is at
    git_root,  \* find_project_root's git_root, 0 for None
    found      \* what find_project_root returned

rootVars == <<dirs, ancestor, git_root, found>>

\* The searcher of Part VI.
VARIABLES
    query,        \* the query string, as its characters
    sanitized,    \* sanitize_query applied once, then twice
    max_results,  \* SearchConfig.max_results
    paths_only,   \* SearchConfig.paths_only
    docs,         \* the rows of files / files_fts the searcher reads
    others,       \* how many further rows the tables hold
    results,      \* the output of Searcher::search, each with its phase
    searchPc      \* the searcher's position in Searcher::search

searchVars ==
    <<query, sanitized, max_results, paths_only, docs, others, results,
      searchPc>>

\* The map the calls on the store describe (Part II).
VARIABLES
    shadow     \* history: path -> the record the calls so far amount to

shadowVars == <<shadow>>

VARIABLES
    input,     \* the arguments and the environment a function is applied to
    output     \* what the function returned and did, <<>> before the call

unitVars == <<input, output>>

otherVars == <<indexVars, rootVars, searchVars, unitVars>>

extVars == <<otherVars, shadowVars, unitVars>>

vars == <<fsVars, storeVars, walkVars, extVars>>

\* No call was made on the store yet.
NoCall == [op |-> "none", path |-> <<>>, mtime |-> 0, size |-> 0]

\* An empty filesystem.
NoTree == <<>>

\* lib.rs: DB_TMP_NAME = ".ffts-index.db.tmp", the one temp path of a reindex.
\* Temp paths are numbered: 0 is DB_TMP_NAME, p > 0 is
\* "<DB_NAME>.tmp.<pid>_<threadhash>" of process/thread p.
DB_TMP_NAME == 0

TmpPaths == {DB_TMP_NAME} \cup Procs

\* ===================================================================
\* Part I: health check and atomic operations
\* ===================================================================

\* Database::get_application_id: Option<u32> as a set, {} for None (the file
\* is not a database), {id} for Some(id).
get_application_id(d) ==
    IF d.kind = "db" /\ d.sealed THEN {d.app}
    ELSE IF d.kind = "db" THEN {UnstampedId}
    ELSE {}

\* check_health_fast with checks 3 and 4 exchanged: the schema is looked at
\* before the application id.
check_health_fast_schema_first(d) ==
    IF d.kind = "none" THEN "Missing"
    ELSE IF d.kind = "unreadable" THEN "Unreadable"
    ELSE IF get_application_id(d) = {} THEN "Corrupted"
    ELSE IF ~d.schema \/ ~d.sealed THEN "SchemaInvalid"
    ELSE IF get_application_id(d) # {APPLICATION_ID_I32} THEN "WrongApplicationId"
    ELSE IF ~d.intact THEN "Corrupted"
    ELSE IF d.rows = {} THEN "Empty"
    ELSE "Healthy"

\* health.rs check_health_fast, on what <DB_NAME> holds.  A main file that was
\* moved without the frames still in its -wal shows the header it was created
\* with: no application id, no schema.
check_health_fast(d) ==
    IF d.kind = "none" THEN "Missing"
    ELSE IF d.kind = "unreadable" THEN "Unreadable"
    ELSE IF get_application_id(d) = {} THEN "Corrupted"
    ELSE IF get_application_id(d) # {APPLICATION_ID_I32} THEN "WrongApplicationId"
    ELSE IF ~d.schema THEN "SchemaInvalid"
    ELSE IF ~d.intact THEN "Corrupted"
    ELSE IF d.rows = {} THEN "Empty"
    ELSE "Healthy"

\* db_path.exists()
Exists(d) == d.kind # "none"

\* ------------------------------------------------------------ process steps
\* Where a finished auto_init / backup_and_reinit returns to: the search flow
\* goes on to open the database after a successful recovery (main.rs run_search
\* lines 409-430), every other caller is done.
ReturnPc(p, r) ==
    IF op[p] = "search" /\ r = "ok" /\ pc[p] # "rs_search"
    THEN "rs_open" ELSE "done"

ReturnRes(p, r) ==
    IF ReturnPc(p, r) = "done" THEN r ELSE "none"

\* The process leaves its current function with result r.
Return(p, r) ==
    /\ pc' = [pc EXCEPT ![p] = ReturnPc(p, r)]
    /\ UNCHANGED <<storeVars, walkVars, extVars>>
    /\ res' = [res EXCEPT ![p] = ReturnRes(p, r)]
    /\ ckptOk' = [ckptOk EXCEPT ![p] = FALSE]

Goto(p, l) ==
    /\ pc' = [pc EXCEPT ![p] = l]
    /\ UNCHANGED <<storeVars, walkVars, extVars>>
    /\ UNCHANGED res

\* Database::open on a path holding cur, by process p: creates the file when it
\* is missing, stamps the application id (db.rs line 132) and switches to WAL.
\* A fresh database keeps its pages in the -wal file until a checkpoint.
OpenedDb(cur, p) ==
    IF cur.kind = "none"
    THEN DbFile(APPLICATION_ID_I32, FALSE, {}, TRUE, FALSE, p)
    ELSE [cur EXCEPT !.app = APPLICATION_ID_I32]

\* Whether Database::open can succeed on a path holding cur.
CanOpen(cur) == cur.kind \in {"none", "db"}

\* A write through a connection whose file was unlinked reaches no path.
WriteSchema(cur) == IF cur.kind = "db" THEN [cur EXCEPT !.schema = TRUE] ELSE cur

\* index_directory to completion: one record per indexable file, records of
\* missing files pruned.
WriteIndex(cur) == IF cur.kind = "db" THEN [cur EXCEPT !.rows = disk] ELSE cur

\* PRAGMA wal_checkpoint(TRUNCATE): the result row (busy, log, checkpointed),
\* or the query's failure.
CkptRows ==
    {[busy |-> b, log |-> l, checkpointed |-> c] :
        b \in {0, 1}, l \in {1}, c \in {0, 1}}

\* All frames of the -wal reached the main file.
CkptComplete(r) == r.log = r.checkpointed

WriteCkpt(cur, r) ==
    IF cur.kind = "db" THEN [cur EXCEPT !.sealed = cur.sealed \/ CkptComplete(r)] ELSE cur

\* --------------------------------------------------------------- auto_init
\* Variant of the temp path of auto_init: one fixed path for every caller
\* (what the per-process, per-thread suffix is there to avoid).
TmpPathAutoInitShared(p) == DB_TMP_NAME

\* health.rs auto_init_with_config line 325: the temp path of process/thread p.
TmpPathAutoInit(p) == p

\* The temp path the running operation of p builds under.
TmpPath(p) ==
    IF op[p] = "atomic_reindex" THEN DB_TMP_NAME ELSE TmpPathAutoInit(p)

\* health.rs lines 402-410 cleanup_temp (and lines 328-332).
CleanupTemp(p) ==
    /\ tmp' = [tmp EXCEPT ![TmpPath(p)] = NoFile]
    /\ tmpAux' = [tmpAux EXCEPT ![TmpPath(p)] = FALSE]

\* lines 328-332: remove stale temp files of this process/thread.
AiClean(p) ==
    /\ pc[p] = "ai_clean"
    /\ CleanupTemp(p)
    /\ Goto(p, "ai_open")
    /\ UNCHANGED <<disk, db, dbAux, backup, op, ckptOk, renamed, fault, db0, opts>>

\* line 335: Database::open(&tmp_path, config)?
AiOpen(p) ==
    /\ pc[p] = "ai_open"
    /\ \/ /\ CanOpen(tmp[TmpPath(p)])
          /\ tmp' = [tmp EXCEPT ![TmpPath(p)] = OpenedDb(@, p)]
          /\ tmpAux' = [tmpAux EXCEPT ![TmpPath(p)] = TRUE]
          /\ Goto(p, "ai_schema")
          /\ UNCHANGED <<ckptOk, fault>>
       \/ \* the open or one of its pragmas fails, before or after the file
          \* was created; `?` returns at once
          /\ \E created \in BOOLEAN :
               /\ tmp' = [tmp EXCEPT ![TmpPath(p)] =
                            IF created /\ CanOpen(@) THEN OpenedDb(@, p) ELSE @]
               /\ tmpAux' = tmpAux
          /\ fault' = TRUE
          /\ Return(p, "err")
    /\ UNCHANGED <<disk, db, dbAux, backup, op, renamed, db0, opts>>

\* line 336: db.init_schema()?
AiSchema(p) ==
    /\ pc[p] = "ai_schema"
    /\ \/ /\ tmp' = [tmp EXCEPT ![TmpPath(p)] = WriteSchema(@)]
          /\ Goto(p, "ai_index")
          /\ UNCHANGED <<ckptOk, fault>>
       \/ /\ fault' = TRUE
          /\ Return(p, "err")
          /\ UNCHANGED tmp
    /\ UNCHANGED <<disk, db, dbAux, tmpAux, backup, op, renamed, db0, opts>>

\* lines 339-340: indexer.index_directory()?
AiIndex(p) ==
    /\ pc[p] = "ai_index"
    /\ \/ /\ tmp' = [tmp EXCEPT ![TmpPath(p)] = WriteIndex(@)]
          /\ Goto(p, "ai_ckpt")
          /\ UNCHANGED <<ckptOk, fault>>
       \/ /\ fault' = TRUE
          /\ Return(p, "err")
          /\ UNCHANGED tmp
    /\ UNCHANGED <<disk, db, dbAux, tmpAux, backup, op, renamed, db0, opts>>

\* lines 371-399: checkpoint_ok from the checkpoint's result.
CheckpointOk(queryOk, r) == queryOk /\ CkptComplete(r)

\* lines 362-365: PRAGMA wal_checkpoint(TRUNCATE), the result kept.
AiCkpt(p) ==
    /\ pc[p] = "ai_ckpt"
    /\ \/ \E r \in CkptRows :
            /\ tmp' = [tmp EXCEPT ![TmpPath(p)] = WriteCkpt(@, r)]
            /\ ckptOk' = [ckptOk EXCEPT ![p] = CheckpointOk(TRUE, r)]
            /\ fault' = (fault \/ ~CkptComplete(r))
       \/ /\ ckptOk' = [ckptOk EXCEPT ![p] = CheckpointOk(FALSE, CHOOSE r \in CkptRows : TRUE)]
          /\ fault' = TRUE
          /\ UNCHANGED tmp
    /\ Goto(p, "ai_close")
    /\ UNCHANGED <<disk, db, dbAux, tmpAux, backup, op, renamed, db0, opts>>

\* line 368: drop(indexer) closes the building connection.
AiClose(p) ==
    /\ pc[p] = "ai_close"
    /\ Goto(p, "ai_decide")
    /\ UNCHANGED <<disk, db, dbAux, tmp, tmpAux, backup, op, ckptOk, renamed, fault,
                   db0, opts>>

\* The branch of lines 412-442 going to the rename without sync_file.
AiDecideNoSync(p) ==
    /\ pc[p] = "ai_decide"
    /\ IF ~ckptOk[p] \/ Exists(db)
       THEN /\ CleanupTemp(p)
            /\ Return(p, IF Exists(db) THEN "ok" ELSE "err")
       ELSE /\ Goto(p, "ai_rename")
            /\ UNCHANGED <<tmp, tmpAux, ckptOk>>
    /\ UNCHANGED <<disk, db, dbAux, backup, op, renamed, fault, db0, opts>>

\* lines 412-442: the branch on checkpoint_ok and db_path.exists().
AiDecide(p) ==
    /\ pc[p] = "ai_decide"
    /\ IF ~ckptOk[p]
       THEN /\ CleanupTemp(p)
            /\ Return(p, IF Exists(db) THEN "ok" ELSE "err")
       ELSE IF Exists(db)
       THEN /\ CleanupTemp(p)
            /\ Return(p, "ok")
       ELSE /\ Goto(p, "ai_sync")
            /\ UNCHANGED <<tmp, tmpAux, ckptOk>>
    /\ UNCHANGED <<disk, db, dbAux, backup, op, renamed, fault, db0, opts>>

\* lines 443-446: sync_file(&tmp_path); it opens the path, so it fails when the
\* file is gone.
AiSync(p) ==
    /\ pc[p] = "ai_sync"
    /\ \/ /\ Exists(tmp[TmpPath(p)])
          /\ Goto(p, "ai_rename")
          /\ UNCHANGED <<tmp, tmpAux, ckptOk, fault>>
       \/ /\ fault' = (fault \/ Exists(tmp[TmpPath(p)]))
          /\ CleanupTemp(p)
          /\ Return(p, "err")
    /\ UNCHANGED <<disk, db, dbAux, backup, op, renamed, db0, opts>>

\* lines 447-451: fs::rename(&tmp_path, &db_path).  It replaces an existing
\* target (POSIX), or fails: the source is gone, the platform refuses to
\* replace a target that appeared after the check (the case the code names),
\* or the call fails on its own.  A failure is taken for a lost race.
AiRename(p) ==
    /\ pc[p] = "ai_rename"
    /\ \/ /\ Exists(tmp[TmpPath(p)])
          /\ db' = tmp[TmpPath(p)]
          /\ tmp' = [tmp EXCEPT ![TmpPath(p)] = NoFile]
          /\ renamed' = [renamed EXCEPT ![p] = TRUE]
          /\ Goto(p, "ai_rmaux")
          /\ UNCHANGED <<tmpAux, ckptOk, fault>>
       \/ /\ fault' = (fault \/ (Exists(tmp[TmpPath(p)]) /\ ~Exists(db)))
          /\ CleanupTemp(p)
          /\ Return(p, "ok")
          /\ UNCHANGED <<db, renamed>>
    /\ UNCHANGED <<disk, dbAux, backup, op, db0, opts>>

\* lines 452-460: remove the temp's -shm/-wal, then sync_parent_dir(&db_path)?
AiRmAux(p) ==
    /\ pc[p] = "ai_rmaux"
    /\ tmpAux' = [tmpAux EXCEPT ![TmpPath(p)] = FALSE]
    /\ \/ /\ Return(p, "ok")
          /\ UNCHANGED fault
       \/ /\ fault' = TRUE
          /\ Return(p, "err")
    /\ UNCHANGED <<disk, db, dbAux, tmp, backup, op, renamed, db0, opts>>

\* ------------------------------------------------------- backup_and_reinit
\* A backup_and_reinit that deletes <DB_NAME> instead of moving it.
BrRenameDeletes(p) ==
    /\ pc[p] = "br_rename"
    /\ db' = NoFile
    /\ Goto(p, "br_rmaux")
    /\ UNCHANGED <<disk, dbAux, tmp, tmpAux, backup, op, ckptOk, renamed, fault, db0,
                   opts>>

\* health.rs lines 512-522: fs::rename(&db_path, &backup_path); a same-second
\* backup is overwritten.
BrRename(p) ==
    /\ pc[p] = "br_rename"
    /\ \/ /\ Exists(db)
          /\ backup' = db
          /\ db' = NoFile
          /\ Goto(p, "br_rmaux")
          /\ UNCHANGED fault
       \/ /\ fault' = (fault \/ Exists(db))
          /\ Goto(p, "br_remove")
          /\ UNCHANGED <<db, backup>>
    /\ UNCHANGED <<disk, dbAux, tmp, tmpAux, op, ckptOk, renamed, db0, opts>>

\* line 514: let _ = fs::remove_file(&db_path), after a failed backup rename.
BrRemove(p) ==
    /\ pc[p] = "br_remove"
    /\ \/ /\ db' = NoFile
          /\ UNCHANGED fault
       \/ /\ Exists(db)
          /\ fault' = TRUE
          /\ UNCHANGED db
    /\ Goto(p, "br_rmaux")
    /\ UNCHANGED <<disk, dbAux, tmp, tmpAux, backup, op, ckptOk, renamed, db0, opts>>

\* lines 525-529: remove <DB_NAME>-shm/-wal, then auto_init_with_config.
BrRmAux(p) ==
    /\ pc[p] = "br_rmaux"
    /\ dbAux' = FALSE
    /\ Goto(p, "ai_clean")
    /\ UNCHANGED <<disk, db, tmp, tmpAux, backup, op, ckptOk, renamed, fault, db0, opts>>

backup_and_reinit(p) == BrRename(p) \/ BrRemove(p) \/ BrRmAux(p)

\* ----------------------------------------------------------- atomic_reindex
\* indexer.rs line 481: let _ = fs::remove_file(&tmp_path)
ArClean(p) ==
    /\ pc[p] = "ar_clean"
    /\ tmp' = [tmp EXCEPT ![TmpPath(p)] = NoFile]
    /\ Goto(p, "ar_open")
    /\ UNCHANGED <<disk, db, dbAux, tmpAux, backup, op, ckptOk, renamed, fault, db0,
                   opts>>

\* line 484: Database::open(&tmp_path, config)?
ArOpen(p) ==
    /\ pc[p] = "ar_open"
    /\ \/ /\ CanOpen(tmp[TmpPath(p)])
          /\ tmp' = [tmp EXCEPT ![TmpPath(p)] = OpenedDb(@, p)]
          /\ tmpAux' = [tmpAux EXCEPT ![TmpPath(p)] = TRUE]
          /\ Goto(p, "ar_schema")
          /\ UNCHANGED <<ckptOk, fault>>
       \/ /\ \E created \in BOOLEAN :
               /\ tmp' = [tmp EXCEPT ![TmpPath(p)] =
                            IF created /\ CanOpen(@) THEN OpenedDb(@, p) ELSE @]
               /\ tmpAux' = tmpAux
          /\ fault' = TRUE
          /\ Return(p, "err")
    /\ UNCHANGED <<disk, db, dbAux, backup, op, renamed, db0, opts>>

\* line 485: db.init_schema()?
ArSchema(p) ==
    /\ pc[p] = "ar_schema"
    /\ \/ /\ tmp' = [tmp EXCEPT ![TmpPath(p)] = WriteSchema(@)]
          /\ Goto(p, "ar_index")
          /\ UNCHANGED <<ckptOk, fault>>
       \/ /\ fault' = TRUE
          /\ Return(p, "err")
          /\ UNCHANGED tmp
    /\ UNCHANGED <<disk, db, dbAux, tmpAux, backup, op, renamed, db0, opts>>

\* lines 488-489: indexer.index_directory()?
ArIndex(p) ==
    /\ pc[p] = "ar_index"
    /\ \/ /\ tmp' = [tmp EXCEPT ![TmpPath(p)] = WriteIndex(@)]
          /\ Goto(p, "ar_ckpt")
          /\ UNCHANGED <<ckptOk, fault>>
       \/ /\ fault' = TRUE
          /\ Return(p, "err")
          /\ UNCHANGED tmp
    /\ UNCHANGED <<disk, db, dbAux, tmpAux, backup, op, renamed, db0, opts>>

\* lines 492-501: the reindex goes on whenever the checkpoint query returned a
\* row; the row's fields are read and dropped.
ReindexCheckpointOk(queryOk, r) == queryOk

\* lines 492-501: PRAGMA wal_checkpoint(TRUNCATE)
ArCkpt(p) ==
    /\ pc[p] = "ar_ckpt"
    /\ \/ \E r \in CkptRows :
            /\ tmp' = [tmp EXCEPT ![TmpPath(p)] = WriteCkpt(@, r)]
            /\ ckptOk' = [ckptOk EXCEPT ![p] = CkptComplete(r)]
            /\ fault' = (fault \/ ~CkptComplete(r))
            /\ IF ReindexCheckpointOk(TRUE, r)
               THEN Goto(p, "ar_close")
               ELSE /\ pc' = [pc EXCEPT ![p] = "done"]
                    /\ res' = [res EXCEPT ![p] = "err"]
                    /\ UNCHANGED <<storeVars, walkVars, extVars>>
       \/ /\ fault' = TRUE
          /\ Return(p, "err")
          /\ UNCHANGED tmp
    /\ UNCHANGED <<disk, db, dbAux, tmpAux, backup, op, renamed, db0, opts>>

\* line 504: drop(indexer)
ArClose(p) ==
    /\ pc[p] = "ar_close"
    /\ Goto(p, "ar_sync")
    /\ UNCHANGED <<disk, db, dbAux, tmp, tmpAux, backup, op, ckptOk, renamed, fault,
                   db0, opts>>

\* line 508: sync_file(&tmp_path)?
ArSync(p) ==
    /\ pc[p] = "ar_sync"
    /\ \/ /\ Exists(tmp[TmpPath(p)])
          /\ Goto(p, "ar_rename")
          /\ UNCHANGED <<ckptOk, fault>>
       \/ /\ fault' = (fault \/ Exists(tmp[TmpPath(p)]))
          /\ Return(p, "err")
    /\ UNCHANGED <<disk, db, dbAux, tmp, tmpAux, backup, op, renamed, db0, opts>>

\* line 511: atomic_replace(&tmp_path, &db_path)?
ArRename(p) ==
    /\ pc[p] = "ar_rename"
    /\ \/ /\ Exists(tmp[TmpPath(p)])
          /\ db' = tmp[TmpPath(p)]
          /\ tmp' = [tmp EXCEPT ![TmpPath(p)] = NoFile]
          /\ renamed' = [renamed EXCEPT ![p] = TRUE]
          /\ Goto(p, "ar_finish")
          /\ UNCHANGED <<ckptOk, fault>>
       \/ /\ fault' = (fault \/ Exists(tmp[TmpPath(p)]))
          /\ Return(p, "err")
          /\ UNCHANGED <<db, tmp, renamed>>
    /\ UNCHANGED <<disk, dbAux, tmpAux, backup, op, db0, opts>>

\* lines 514-520: sync_parent_dir(&db_path)?, then remove <DB_NAME>-shm/-wal.
ArFinish(p) ==
    /\ pc[p] = "ar_finish"
    /\ \/ /\ dbAux' = FALSE
          /\ Return(p, "ok")
          /\ UNCHANGED fault
       \/ /\ fault' = TRUE
          /\ Return(p, "err")
          /\ UNCHANGED dbAux
    /\ UNCHANGED <<disk, db, tmp, tmpAux, backup, op, renamed, db0, opts>>

atomic_reindex(p) ==
    \/ ArClean(p) \/ ArOpen(p) \/ ArSchema(p) \/ ArIndex(p) \/ ArCkpt(p)
    \/ ArClose(p) \/ ArSync(p) \/ ArRename(p) \/ ArFinish(p)

auto_init(p) ==
    \/ AiClean(p) \/ AiOpen(p) \/ AiSchema(p) \/ AiIndex(p) \/ AiCkpt(p)
    \/ AiClose(p) \/ AiDecide(p) \/ AiSync(p) \/ AiRename(p) \/ AiRmAux(p)

\* -------------------------------------------------------- index_incremental
\* Database::open on <DB_NAME> itself: the database is built in place, beside
\* its own -wal, so what it holds is readable at once.
OpenedInPlace(cur, p) == [OpenedDb(cur, p) EXCEPT !.sealed = TRUE]

\* main.rs line 274: Database::open(db_path, config)?
IiOpen(p) ==
    /\ pc[p] = "ii_open"
    /\ \/ /\ CanOpen(db)
          /\ db' = OpenedInPlace(db, p)
          /\ dbAux' = TRUE
          /\ Goto(p, "ii_schema")
          /\ UNCHANGED <<ckptOk, fault>>
       \/ /\ fault' = (fault \/ CanOpen(db))
          /\ Return(p, "err")
          /\ UNCHANGED <<db, dbAux>>
    /\ UNCHANGED <<disk, tmp, tmpAux, backup, op, renamed, db0, opts>>

\* main.rs line 275: db.init_schema()?
IiSchema(p) ==
    /\ pc[p] = "ii_schema"
    /\ \/ /\ db' = WriteSchema(db)
          /\ Goto(p, "ii_index")
          /\ UNCHANGED <<ckptOk, fault>>
       \/ /\ fault' = TRUE
          /\ Return(p, "err")
          /\ UNCHANGED db
    /\ UNCHANGED <<disk, dbAux, tmp, tmpAux, backup, op, renamed, db0, opts>>

\* main.rs lines 276-277: indexer.index_directory(); a damaged file table
\* fails the first statement.
IiIndex(p) ==
    /\ pc[p] = "ii_index"
    /\ \/ /\ db.kind = "db" => db.intact
          /\ db' = WriteIndex(db)
          /\ Return(p, "ok")
          /\ UNCHANGED fault
       \/ /\ fault' = (fault \/ (db.kind = "db" => db.intact))
          /\ Return(p, "err")
          /\ UNCHANGED db
    /\ UNCHANGED <<disk, dbAux, tmp, tmpAux, backup, op, renamed, db0, opts>>

index_incremental(p) == IiOpen(p) \/ IiSchema(p) \/ IiIndex(p)

\* ---------------------------------------------------------------- run_search
\* health.rs lines 61-88: the variants of enum DatabaseHealth.
DatabaseHealth ==
    {"Healthy", "Empty", "Missing", "Unreadable", "WrongApplicationId",
     "SchemaInvalid", "Corrupted"}

is_usable(h) == h = "Healthy"

needs_init(h) == h \in {"Missing", "Empty"}

\* A needs_reinit that also takes Unreadable.
needs_reinit_or_unreadable(h) == h \in {"SchemaInvalid", "Corrupted", "Unreadable"}

is_unrecoverable(h) == h \in {"WrongApplicationId", "Unreadable"}

needs_reinit(h) == h \in {"SchemaInvalid", "Corrupted"}

\* The predicates of DatabaseHealth that hold of h.
recovery_classes(h) ==
    {c \in {"is_usable", "needs_init", "needs_reinit", "is_unrecoverable"} :
        CASE c = "is_usable" -> is_usable(h)
          [] c = "needs_init" -> needs_init(h)
          [] c = "needs_reinit" -> needs_reinit(h)
          [] c = "is_unrecoverable" -> is_unrecoverable(h)}

\* main.rs lines 394-476: the dispatch on check_health_fast, as the position
\* the flow goes to ("done": it returns an error code).
SearchDispatch(h, o) ==
    IF h = "Healthy" THEN (IF o.refresh THEN "ii_open" ELSE "rs_open")
    ELSE IF needs_init(h) /\ ~o.no_auto_init THEN "ai_clean"
    ELSE IF needs_reinit(h) /\ ~o.no_auto_init THEN "br_rename"
    ELSE "done"

\* main.rs line 394: health::check_health_fast(project_dir) and the match.
RsHealth(p) ==
    /\ pc[p] = "rs_health"
    /\ pc' = [pc EXCEPT ![p] = SearchDispatch(check_health_fast(db), opts[p])]
    /\ res' = [res EXCEPT ![p] = IF pc'[p] = "done" THEN "err" ELSE "none"]
    /\ UNCHANGED <<storeVars, walkVars, extVars>>
    /\ UNCHANGED <<disk, db, dbAux, tmp, tmpAux, backup, op, ckptOk, renamed, fault,
                   db0, opts>>

\* main.rs lines 479-489: Database::open(&db_path, config)
RsOpen(p) ==
    /\ pc[p] = "rs_open"
    /\ \/ /\ CanOpen(db)
          /\ db' = OpenedInPlace(db, p)
          /\ dbAux' = TRUE
          /\ Goto(p, "rs_search")
          /\ UNCHANGED <<ckptOk, fault>>
       \/ /\ fault' = (fault \/ CanOpen(db))
          /\ Return(p, "err")
          /\ UNCHANGED <<db, dbAux>>
    /\ UNCHANGED <<disk, tmp, tmpAux, backup, op, renamed, db0, opts>>

\* main.rs lines 491-523: db.init_schema(), then the search.
RsSearch(p) ==
    /\ pc[p] = "rs_search"
    /\ \/ /\ db' = WriteSchema(db)
          /\ Return(p, "ok")
          /\ UNCHANGED fault
       \/ /\ fault' = TRUE
          /\ Return(p, "err")
          /\ UNCHANGED db
    /\ UNCHANGED <<disk, dbAux, tmp, tmpAux, backup, op, renamed, db0, opts>>

run_search(p) == RsHealth(p) \/ RsOpen(p) \/ RsSearch(p)

\* ------------------------------------------------------------ specification
Ops == {"auto_init", "backup_and_reinit", "atomic_reindex", "index", "search"}

FirstPc(o) ==
    CASE o = "auto_init" -> "ai_clean"
      [] o = "backup_and_reinit" -> "br_rename"
      [] o = "atomic_reindex" -> "ar_clean"
      [] o = "index" -> "ii_open"
      [] o = "search" -> "rs_health"

NoOpts == [no_auto_init |-> FALSE, refresh |-> FALSE]

SearchOpts == [no_auto_init : BOOLEAN, refresh : BOOLEAN]

\* A caller invokes one of the operations ops as process p.
Start(p, ops) ==
    /\ pc[p] = "idle"
    /\ \E o \in ops :
         /\ op' = [op EXCEPT ![p] = o]
         /\ pc' = [pc EXCEPT ![p] = FirstPc(o)]
         /\ \E so \in (IF o = "search" THEN SearchOpts ELSE {NoOpts}) :
              opts' = [opts EXCEPT ![p] = so]
    /\ UNCHANGED <<disk, db, dbAux, tmp, tmpAux, backup, ckptOk, res, renamed, fault,
                   db0>>
    /\ UNCHANGED <<storeVars, walkVars, extVars>>

\* No store is open and no walk is running.
StoreIdle ==
    /\ files = {}
    /\ fts = {}
    /\ fired = {}
    /\ clock = 0
    /\ call = NoCall

WalkIdle ==
    /\ tree = NoTree
    /\ follow_symlinks = FALSE
    /\ todo = {}
    /\ yielded = {}
    /\ readFrom = {}

\* No index_directory run exists.
IndexIdle ==
    /\ ixKinds = <<>>
    /\ ixFaults = FALSE
    /\ ixRows = <<>>
    /\ ixLock = 0
    /\ ixPc = <<>>
    /\ ixNext = <<>>
    /\ batch_count = <<>>
    /\ transaction_started = <<>>
    /\ ixPending = <<>>
    /\ ixStats = <<>>
    /\ ixRes = <<>>
    /\ ixHist = <<>>

RootIdle ==
    /\ dirs = <<>>
    /\ ancestor = 0
    /\ git_root = 0
    /\ found = <<>>

SearchIdle ==
    /\ query = <<>>
    /\ sanitized = <<>>
    /\ max_results = 0
    /\ paths_only = FALSE
    /\ docs = {}
    /\ others = 0
    /\ results = <<>>
    /\ searchPc = "idle"

\* No function was applied on its own.
UnitIdle ==
    /\ input = <<>>
    /\ output = <<>>

OtherIdle ==
    /\ IndexIdle
    /\ RootIdle
    /\ SearchIdle
    /\ UnitIdle

\* No call was made on the store: the map is empty.
ShadowIdle == shadow = <<>>

Init ==
    /\ disk \in SUBSET Files
    /\ db \in InitialDbs
    /\ dbAux \in (IF Exists(db) THEN BOOLEAN ELSE {FALSE})
    /\ tmp = [t \in TmpPaths |-> NoFile]
    /\ tmpAux = [t \in TmpPaths |-> FALSE]
    /\ backup = NoFile
    /\ op = [p \in Procs |-> "idle"]
    /\ pc = [p \in Procs |-> "idle"]
    /\ ckptOk = [p \in Procs |-> FALSE]
    /\ res = [p \in Procs |-> "none"]
    /\ renamed = [p \in Procs |-> FALSE]
    /\ fault = FALSE
    /\ db0 = db
    /\ opts = [p \in Procs |-> NoOpts]
    /\ StoreIdle
    /\ WalkIdle
    /\ OtherIdle
    /\ ShadowIdle

Next ==
    \E p \in Procs :
        \/ Start(p, Ops)
        \/ auto_init(p)
        \/ backup_and_reinit(p)
        \/ atomic_reindex(p)
        \/ index_incremental(p)
        \/ run_search(p)

\* Any operations, concurrently.
Spec == Init /\ [][Next]_vars

\* Only auto_init calls, concurrently.
NextAutoInit ==
    \E p \in Procs :
        \/ Start(p, {"auto_init"})
        \/ auto_init(p)

SpecAutoInit == Init /\ [][NextAutoInit]_vars

\* One operation, alone in the directory.
NextSolo ==
    \/ Start(1, Ops)
    \/ auto_init(1)
    \/ backup_and_reinit(1)
    \/ atomic_reindex(1)
    \/ index_incremental(1)
    \/ run_search(1)

SpecSolo == Init /\ [][NextSolo]_vars

\* ===================================================================
\* Claims about the atomic operations
\* ===================================================================

\* The operation of p has returned.
Returned(p) == pc[p] = "done"

\* Every operation that was started has returned, and at least one was.
AllReturned ==
    /\ \A p \in Procs : pc[p] \in {"idle", "done"}
    /\ \E p \in Procs : Returned(p)

\* No temp database, nor a temp -shm/-wal, is left in the directory.
NoTempResidue == \A t \in TmpPaths : ~Exists(tmp[t]) /\ ~tmpAux[t]

\* The positions at which an operation works on its temp path.
TempPcs ==
    {"ai_clean", "ai_open", "ai_schema", "ai_index", "ai_ckpt", "ai_close",
     "ai_decide", "ai_sync", "ai_rename", "ai_rmaux",
     "ar_clean", "ar_open", "ar_schema", "ar_index", "ar_ckpt", "ar_close",
     "ar_sync", "ar_rename"}

\* C1 (SpecAutoInit): when no store or filesystem call fails, at most one of
\* the concurrent auto_init calls renames its temp database onto <DB_NAME>,
\* and every other call that has returned deleted its temp files and returned
\* success.
C1_AtMostOneRename ==
    ~fault =>
        /\ Cardinality({p \in Procs : renamed[p]}) <= 1
        /\ \A p \in Procs :
             (Returned(p) /\ ~renamed[p]) =>
                 (res[p] = "ok" /\ ~Exists(tmp[TmpPath(p)]) /\ ~tmpAux[TmpPath(p)])

\* C2 (SpecSolo): at every instant of an atomic_reindex, <DB_NAME> holds the
\* old database as it was, or the complete new one (built by this run, schema
\* complete, every record in the main file).
C2_OldOrNewComplete ==
    \A p \in Procs :
        op[p] = "atomic_reindex" =>
            \/ db = db0
            \/ /\ db.kind = "db"
               /\ db.owner = p
               /\ db.sealed
               /\ db.schema
               /\ db.rows = disk

\* C5 (SpecSolo): whenever backup_and_reinit has returned success, <DB_NAME>
\* is Healthy according to check_health_fast.
C5_SuccessMeansHealthy ==
    \A p \in Procs :
        (op[p] = "backup_and_reinit" /\ Returned(p) /\ res[p] = "ok") =>
            check_health_fast(db) = "Healthy"

\* C6 (SpecSolo): a temp database is on <DB_NAME> by a rename only if the
\* truncating checkpoint of that run reported log == checkpointed.
C6_RenameOnlyAfterCompleteCheckpoint ==
    \A p \in Procs : pc[p] \in {"ai_rmaux", "ar_finish"} => ckptOk[p]

\* C7 (Spec): two operations that are working on their temp paths at the same
\* time work on distinct temp paths.
C7_DistinctTempPaths ==
    \A p, q \in Procs :
        (p # q /\ pc[p] \in TempPcs /\ pc[q] \in TempPcs) => TmpPath(p) # TmpPath(q)

\* A database file stamped with another application id than ours.
Foreign(d) == d.kind = "db" /\ d.app # APPLICATION_ID_I32

\* C9 (SpecSolo): a foreign file at <DB_NAME> is left exactly as it was by the
\* search flow, auto_init, incremental indexing and atomic_reindex.
C9_ForeignUntouched ==
    (/\ Foreign(db0)
     /\ \A p \in Procs : op[p] # "backup_and_reinit") => db = db0

\* C14 (SpecSolo): check_health_fast returns the verdict of the first failing
\* probe in the order file-exists, read-only open, application id, schema,
\* row count: Missing; Unreadable; WrongApplicationId when the id differs and
\* Corrupted when it cannot be read; SchemaInvalid; then Corrupted when the
\* count fails, Empty when it is zero, Healthy when it is positive.  A foreign
\* application id gives WrongApplicationId even with an incomplete schema, and
\* the search flow on such a file returns an error without recovering.
C14_FirstFailingProbe ==
    LET h == check_health_fast(db)
        exists == db.kind # "none"
        opens == db.kind # "unreadable"
        idRead == get_application_id(db) # {}
        idOk == get_application_id(db) = {APPLICATION_ID_I32}
        schemaOk == db.kind = "db" /\ db.sealed /\ db.schema
        countOk == db.kind = "db" /\ db.intact
        count == Cardinality(db.rows)
    IN  /\ h = "Missing" <=> ~exists
        /\ h = "Unreadable" <=> (exists /\ ~opens)
        /\ h = "WrongApplicationId" <=> (exists /\ opens /\ idRead /\ ~idOk)
        /\ h = "SchemaInvalid" <=> (exists /\ opens /\ idOk /\ ~schemaOk)
        /\ h = "Corrupted" <=>
              (exists /\ opens /\ (~idRead \/ (idOk /\ schemaOk /\ ~countOk)))
        /\ h = "Empty" <=>
              (exists /\ opens /\ idOk /\ schemaOk /\ countOk /\ count = 0)
        /\ h = "Healthy" <=>
              (exists /\ opens /\ idOk /\ schemaOk /\ countOk /\ count > 0)
        /\ (Foreign(db) /\ ~db.schema) => h = "WrongApplicationId"
        /\ \A p \in Procs :
             (op[p] = "search" /\ Foreign(db0) /\ ~db0.schema) =>
                 /\ pc[p] \in {"rs_health", "done"}
                 /\ pc[p] = "done" => res[p] = "err"

\* A search flow has run check_health_fast on a file with a foreign
\* application id and an incomplete schema, automatic recovery allowed.
C14_Witness ==
    \E p \in Procs :
        /\ op[p] = "search"
        /\ pc[p] = "done"
        /\ ~opts[p].no_auto_init
        /\ Foreign(db) /\ ~db.schema
        /\ check_health_fast(db) = "WrongApplicationId"

\* C10 (SpecAutoInit): concurrent auto_init calls on a directory without a
\* database and with at least one indexable file, no call of the store or the
\* filesystem failing: once all have returned, <DB_NAME> exists and is
\* Healthy, holds one record per indexable file, at least one call returned
\* success, and no temp file remains.
C10_RacePostCondition ==
    (AllReturned /\ ~Exists(db0) /\ disk # {} /\ ~fault) =>
        /\ Exists(db)
        /\ check_health_fast(db) = "Healthy"
        /\ Cardinality(db.rows) = Cardinality(disk)
        /\ db.rows = disk
        /\ \E p \in Procs : res[p] = "ok"
        /\ NoTempResidue

\* C10 witness: all calls returned after a real race: one call renamed, and
\* another one found the database in place and discarded its own.
C10_Witness ==
    /\ \A p \in Procs : Returned(p)
    /\ ~Exists(db0) /\ disk # {} /\ ~fault
    /\ \E p, q \in Procs : p # q /\ renamed[p] /\ ~renamed[q] /\ res[q] = "ok"

\* C22 (SpecSolo): whenever atomic_reindex has returned success, <DB_NAME> is
\* the database built by this run, whatever the previous one was: its schema
\* is complete, its records are exactly the files indexed in this run, and no
\* -shm/-wal of the previous database remains.
C22_ReindexInstallsNewDatabase ==
    \A p \in Procs :
        (op[p] = "atomic_reindex" /\ Returned(p) /\ res[p] = "ok") =>
            /\ db.kind = "db"
            /\ db.owner = p
            /\ db.sealed
            /\ db.schema
            /\ db.rows = disk
            /\ ~dbAux

C33_EmptyIsIndexedBeforeSearch ==
    \A p \in Procs :
        (/\ op[p] = "search"
         /\ ~opts[p].no_auto_init
         /\ check_health_fast(db0) = "Empty"
         /\ disk # {}
         /\ ~fault
         /\ pc[p] = "rs_search") =>
            /\ check_health_fast(db) = "Healthy"
            /\ db.rows = disk

\* The position a step of the swap may be entered from.
SwapBefore(l) ==
    CASE l = "ai_close" -> "ai_ckpt"
      [] l = "ai_decide" -> "ai_close"
      [] l = "ai_sync" -> "ai_decide"
      [] l = "ai_rename" -> "ai_sync"
      [] l = "ai_rmaux" -> "ai_rename"
      [] l = "ar_close" -> "ar_ckpt"
      [] l = "ar_sync" -> "ar_close"
      [] l = "ar_rename" -> "ar_sync"
      [] l = "ar_finish" -> "ar_rename"
      [] OTHER -> "none"

\* C35 (SpecSolo): in auto_init and atomic_reindex the steps of the swap come in
\* the order checkpoint, close of the building connection, fsync of the temp
\* file, rename onto <DB_NAME>, fsync of the directory: each is entered only
\* from the one before it, the temp file is renamed only in the rename step,
\* which is entered only from an fsync that succeeded on an existing temp
\* file, and the directory fsync follows only a rename that took place.
C35_SwapStepsInOrder ==
    [][\A p \in Procs :
          /\ (pc'[p] # pc[p] /\ SwapBefore(pc'[p]) # "none") =>
                 pc[p] = SwapBefore(pc'[p])
          /\ (renamed'[p] /\ ~renamed[p]) =>
                 /\ pc[p] \in {"ai_rename", "ar_rename"}
                 /\ pc'[p] \in {"ai_rmaux", "ar_finish"}
                 /\ db' = tmp[TmpPath(p)]
          /\ (pc[p] \in {"ai_sync", "ar_sync"} /\ pc'[p] \in {"ai_rename", "ar_rename"}) =>
                 Exists(tmp[TmpPath(p)]) /\ tmp' = tmp
          /\ (pc[p] # pc'[p] /\ pc'[p] \in {"ai_rmaux", "ar_finish"}) =>
                 renamed'[p] /\ ~renamed[p]]_vars

\* C35 witness: an auto_init went through the swap, renamed its checkpointed
\* temp file onto <DB_NAME> and returned success after the directory fsync.
C35_Witness ==
    \E p \in Procs :
        /\ op[p] = "auto_init"
        /\ renamed[p]
        /\ pc[p] = "done"
        /\ res[p] = "ok"
        /\ db.owner = p
        /\ db.sealed
        /\ ~fault

\* C36 (SpecSolo): whenever auto_init has returned, with success or with any
\* error, neither its temp database nor the temp's -shm/-wal is left in the
\* directory.
C36_AutoInitLeavesNoTemp ==
    \A p \in Procs :
        (op[p] = "auto_init" /\ pc[p] = "done") =>
            /\ ~Exists(tmp[TmpPath(p)])
            /\ ~tmpAux[TmpPath(p)]

\* ===================================================================
\* Part II: the store (db.rs)
\* ===================================================================

\* Largest value of the clock (seconds).
MaxClock == 1
\* Largest rowid the table hands out: no insert is made beyond it.
MaxRowid == 2

\* The modification times (seconds) and sizes (bytes) a caller passes.
Mtimes == {100, 200}

Sizes == {1, 2}

\* Root-relative paths, as their components: "a.rs" and "d/a.rs".
Paths == {<<"a.rs">>, <<"d", "a.rs">>}

\* File contents.
Contents == {"x", "y", "z"}

\* db.rs wyhash: 64 bits of hash as 16 hex digits.  Contents are unbounded and
\* hashes are not, so distinct contents may share a hash: "x" and "z" do.
wyhash(content) == IF content = "y" THEN "00000000000000a1" ELSE "00000000000000f7"

\* Path::file_name: the last component.
file_name(path) == path[Len(path)]

\* A store as the statements see it: the rows of files, the rows of files_fts,
\* and the triggers fired so far by the running statement.
Store(f, t, tr) == [files |-> f, fts |-> t, fired |-> tr]

\* What files_fts holds for a row of files (rowid, filename, path, content).
FtsRow(r) ==
    [rowid |-> r.id, filename |-> r.filename, path |-> r.path, content |-> r.content]

\* Trigger files_ai, db.rs lines 288-296.
files_ai(st, new) ==
    [st EXCEPT !.fts = @ \cup {FtsRow(new)}, !.fired = @ \cup {"files_ai"}]

\* Trigger files_au, db.rs lines 298-308: 'delete' of the old values, then
\* insert of the new ones.
files_au(st, old, new) ==
    [st EXCEPT !.fts = (@ \ {FtsRow(old)}) \cup {FtsRow(new)},
               !.fired = @ \cup {"files_au"}]

\* Variant of files_ad: the trigger is missing, a deleted row keeps its FTS row.
files_ad_missing(st, old) == st

\* Trigger files_ad, db.rs lines 310-318.
files_ad(st, old) ==
    [st EXCEPT !.fts = @ \ {FtsRow(old)}, !.fired = @ \cup {"files_ad"}]

\* The rowid SQLite gives a new row of an INTEGER PRIMARY KEY table: one more
\* than the largest in use.
NewRowid(f) ==
    IF f = {} THEN 1
    ELSE (CHOOSE m \in {r.id : r \in f} : \A r \in f : r.id <= m) + 1

\* Variant of the WHERE clause: the update happens whatever the hashes are.
upsert_where_always(excluded_hash, stored_hash) == TRUE

\* db.rs line 364: WHERE excluded.content_hash != (SELECT content_hash ...).
upsert_where(excluded_hash, stored_hash) == excluded_hash # stored_hash

\* db.rs upsert_file lines 347-373: INSERT ... ON CONFLICT(path) DO UPDATE ...
\* WHERE ..., with the triggers the statement fires.
upsert_file(st, path, content, mtime, size, now) ==
    LET hash == wyhash(content)
        conflict == {r \in st.files : r.path = path}
    IN  IF conflict = {}
        THEN LET new == [id |-> NewRowid(st.files), path |-> path,
                         filename |-> file_name(path), content_hash |-> hash,
                         mtime |-> mtime, size |-> size, indexed_at |-> now,
                         content |-> content]
             IN  files_ai([st EXCEPT !.files = @ \cup {new}], new)
        ELSE LET old == CHOOSE r \in conflict : TRUE
                 new == [old EXCEPT !.filename = file_name(path),
                                    !.content_hash = hash,
                                    !.mtime = mtime,
                                    !.size = size,
                                    !.indexed_at = now,
                                    !.content = content]
             IN  IF upsert_where(hash, old.content_hash)
                 THEN files_au([st EXCEPT !.files = (@ \ {old}) \cup {new}], old, new)
                 ELSE st

\* DELETE FROM files of the rows gone, one row at a time, each firing files_ad.
RECURSIVE DeleteRows(_, _)
DeleteRows(st, gone) ==
    IF gone = {} THEN st
    ELSE LET old == CHOOSE r \in gone : TRUE
         IN  DeleteRows(files_ad([st EXCEPT !.files = @ \ {old}], old), gone \ {old})

\* Variant of delete_file: the statement deletes nothing.
delete_file_nothing(st, path) == st

\* db.rs delete_file lines 379-384: DELETE FROM files WHERE path = ?
delete_file(st, path) ==
    DeleteRows(st, {r \in st.files : r.path = path})

\* prune_missing_files(root): removes every record whose path, joined to the
\* root, does not exist on disk; present are the paths that exist.
prune_missing_files(st, present) ==
    DeleteRows(st, {r \in st.files : r.path \notin present})

\* The store after a statement, and the call that made it.
Statement(st, c) ==
    /\ files' = st.files
    /\ fts' = st.fts
    /\ fired' = st.fired
    /\ call' = c
    /\ UNCHANGED <<fsVars, walkVars, otherVars>>

\* The row of files with this path (there is one).
RowOf(f, path) == CHOOSE r \in f : r.path = path

HasRow(f, path) == \E r \in f : r.path = path

\* The store before a statement: no trigger fired yet.
Current == Store(files, fts, {})

\* What the calls so far amount to for a path: no record, or the content,
\* content hash, mtime and size the record is to hold.
NoRecord ==
    [present |-> FALSE, content |-> "", content_hash |-> "", mtime |-> 0, size |-> 0]

\* upsert_file as the documentation of db.rs lines 337-346 describes it: insert,
\* or update unless the content hash is the stored one (lazy invalidation).
ShadowUpsert(m, path, content, mtime, size) ==
    IF m[path].present /\ m[path].content_hash = wyhash(content)
    THEN m
    ELSE [m EXCEPT ![path] = [present |-> TRUE, content |-> content,
                              content_hash |-> wyhash(content), mtime |-> mtime,
                              size |-> size]]

\* delete_file as db.rs lines 375-378 describe it: the path is gone.
ShadowDelete(m, path) == [m EXCEPT ![path] = NoRecord]

\* A caller upserts a file at some time now, no earlier than the last call.
UpsertFile ==
    \E path \in Paths, content \in Contents, mtime \in Mtimes,
       size \in Sizes, now \in clock..MaxClock :
        /\ HasRow(files, path) \/ NewRowid(files) <= MaxRowid
        /\ clock' = now
        /\ shadow' = ShadowUpsert(shadow, path, content, mtime, size)
        /\ Statement(upsert_file(Current, path, content, mtime, size, now),
                     [op |-> "upsert_file", path |-> path, mtime |-> mtime,
                      size |-> size])

DeleteFile ==
    \E path \in Paths :
        /\ UNCHANGED clock
        /\ shadow' = ShadowDelete(shadow, path)
        /\ Statement(delete_file(Current, path),
                     [NoCall EXCEPT !.op = "delete_file", !.path = path])

PruneMissingFiles ==
    \E present \in SUBSET Paths :
        /\ UNCHANGED clock
        /\ shadow' = [path \in Paths |->
                        IF path \in present THEN shadow[path] ELSE NoRecord]
        /\ Statement(prune_missing_files(Current, present),
                     [NoCall EXCEPT !.op = "prune_missing_files"])

\* Nothing happens in the project directory while the store is exercised.
FsIdle ==
    /\ disk = {}
    /\ db = NoFile
    /\ dbAux = FALSE
    /\ tmp = [t \in TmpPaths |-> NoFile]
    /\ tmpAux = [t \in TmpPaths |-> FALSE]
    /\ backup = NoFile
    /\ op = [p \in Procs |-> "idle"]
    /\ pc = [p \in Procs |-> "idle"]
    /\ ckptOk = [p \in Procs |-> FALSE]
    /\ res = [p \in Procs |-> "none"]
    /\ renamed = [p \in Procs |-> FALSE]
    /\ fault = FALSE
    /\ db0 = db
    /\ opts = [p \in Procs |-> NoOpts]

\* A freshly initialised database: init_schema ran, the tables are empty.
InitStore ==
    /\ FsIdle
    /\ StoreIdle
    /\ WalkIdle
    /\ OtherIdle
    /\ shadow = [path \in Paths |-> NoRecord]

NextStore ==
    \/ UpsertFile
    \/ DeleteFile
    \/ PruneMissingFiles

SpecStore == InitStore /\ [][NextStore]_vars

\* The store under sequences of upsert_file and delete_file calls only.
NextCalls ==
    \/ UpsertFile
    \/ DeleteFile

SpecCalls == InitStore /\ [][NextCalls]_vars

\* ----------------------------------------------------- claims on the store
\* C3 (SpecStore): after every committed upsert, delete or prune, each row of
\* files has exactly one FTS row with its id, holding its filename, path and
\* content, and each FTS row belongs to exactly one row of files.
C3_FilesMatchFts ==
    /\ \A r \in files :
         /\ Cardinality({x \in fts : x.rowid = r.id}) = 1
         /\ FtsRow(r) \in fts
    /\ \A x \in fts : Cardinality({r \in files : r.id = x.rowid}) = 1

\* C3 witness: the three kinds of statement have all acted: after an update
\* (files_au) and a delete or prune (files_ad) the table still holds a row.
C3_Witness ==
    /\ call.op \in {"delete_file", "prune_missing_files"}
    /\ "files_ad" \in fired
    /\ \E r \in files : r.id > 1

\* C4 (SpecStore): an upsert_file on a path whose row holds the same content
\* hash changes no field of the row (content, content_hash, filename, mtime,
\* size, indexed_at), whatever content, mtime, size and time are passed, and
\* fires no trigger, so that the FTS row is not rewritten.
C4_SameHashChangesNothing ==
    \A path \in Paths, content \in Contents, mtime \in Mtimes,
       size \in Sizes, now \in clock..MaxClock :
        (HasRow(files, path) /\ RowOf(files, path).content_hash = wyhash(content))
        => upsert_file(Current, path, content, mtime, size, now) = Current

\* C4 witness: the last call was an upsert_file that met a row with its hash:
\* it fired no trigger, and the row keeps an mtime, a size and an indexed_at
\* other than the ones passed.
C4_Witness ==
    /\ call.op = "upsert_file"
    /\ HasRow(files, call.path)
    /\ fired = {}
    /\ LET r == RowOf(files, call.path)
       IN  /\ r.mtime # call.mtime
           /\ r.size # call.size
           /\ r.indexed_at < clock

\* C20 (SpecCalls): after any sequence of upsert_file and delete_file calls the
\* file table is the map the calls amount to: one record for each path upserted
\* and not deleted since, none for any other path, each record holding the
\* content, content_hash, mtime and size of the last upsert of its path whose
\* hash differed from the stored one.
C20_TableIsTheMap ==
    /\ Cardinality(files) = Cardinality({path \in Paths : shadow[path].present})
    /\ \A path \in Paths :
         /\ shadow[path].present <=> HasRow(files, path)
         /\ Cardinality({r \in files : r.path = path}) <= 1
         /\ shadow[path].present =>
              LET r == RowOf(files, path)
              IN  /\ r.content = shadow[path].content
                  /\ r.content_hash = shadow[path].content_hash
                  /\ r.mtime = shadow[path].mtime
                  /\ r.size = shadow[path].size
    /\ \A r \in files : r.path \in Paths

\* C20 witness: a path was deleted after both paths had been upserted, and the
\* other path keeps the record of an earlier upsert (its indexed_at is past).
C20_Witness ==
    /\ call.op = "delete_file"
    /\ "files_ad" \in fired
    /\ \E r \in files : r.id = 2 /\ r.indexed_at < clock

\* ===================================================================
\* Part III: the directory walk (indexer.rs index_directory)
\* ===================================================================

\* Absolute paths are sequences of components.  The project root, and a
\* directory that is not below it.
Root == <<"r">>

Outside == <<"o">>

NoNode == [type |-> "none", target |-> <<>>, content |-> "", mtime |-> 0, size |-> 0]

DirNode == [NoNode EXCEPT !.type = "dir"]

FileNode(content, mtime, size) ==
    [NoNode EXCEPT !.type = "file", !.content = content, !.mtime = mtime,
                   !.size = size]

LinkNode(target) == [NoNode EXCEPT !.type = "link", !.target = target]

\* The names a directory entry may have, and the paths a tree may populate.
Names == {"a.rs", "sub", "b.rs", "lf.rs", "ld", "x.rs", "data.db"}

TreePaths ==
    {Root, Outside, <<"r", "a.rs">>, <<"r", "sub">>, <<"r", "sub", "b.rs">>,
     <<"r", "lf.rs">>, <<"r", "ld">>, <<"r", "data.db">>, <<"o", "x.rs">>}

\* What a symbolic link of the tree points at: nothing (there is no link), a
\* path below the root, or a path outside of it.
LinkNodeTo(target) == IF target = <<>> THEN NoNode ELSE LinkNode(target)

\* A tree: file a.rs is missing, small or larger than max_file_size; lf.rs is a
\* link to a file, ld a link to a directory.
TreeOf(a, lf, ld) ==
    [p \in TreePaths |->
        CASE p = Root -> DirNode
          [] p = Outside -> DirNode
          [] p = <<"r", "a.rs">> ->
                IF a = 0 THEN NoNode ELSE FileNode("x", 100, a)
          [] p = <<"r", "sub">> -> DirNode
          [] p = <<"r", "sub", "b.rs">> -> FileNode("y", 200, 1)
          [] p = <<"r", "lf.rs">> -> LinkNodeTo(lf)
          [] p = <<"r", "ld">> -> LinkNodeTo(ld)
          [] p = <<"r", "data.db">> -> FileNode("z", 100, 1)
          [] p = <<"o", "x.rs">> -> FileNode("z", 200, 1)]

Trees ==
    {TreeOf(a, lf, ld) :
        a \in {0} \cup Sizes,
        lf \in {<<>>, <<"r", "a.rs">>, <<"o", "x.rs">>},
        ld \in {<<>>, <<"r", "sub">>, Outside}}

Node(p) == IF p \in DOMAIN tree THEN tree[p] ELSE NoNode

Parent(p) == SubSeq(p, 1, Len(p) - 1)

\* fs::canonicalize: the path with every symbolic link resolved, <<>> when the
\* path does not exist.
RECURSIVE canonicalize(_)
canonicalize(p) ==
    IF Len(p) <= 1 THEN (IF Node(p).type = "dir" THEN p ELSE <<>>)
    ELSE LET par == canonicalize(Parent(p))
             q == Append(par, p[Len(p)])
         IN  IF par = <<>> \/ Node(q).type = "none" THEN <<>>
             ELSE IF Node(q).type = "link" THEN canonicalize(Node(q).target)
             ELSE q

\* fs::symlink_metadata: the node a path names, its last component not followed.
symlink_metadata(p) ==
    IF Len(p) <= 1 THEN Node(p)
    ELSE IF canonicalize(Parent(p)) = <<>> THEN NoNode
    ELSE Node(Append(canonicalize(Parent(p)), p[Len(p)]))

\* fs::metadata: the node a path names, links followed.
metadata(p) == IF canonicalize(p) = <<>> THEN NoNode ELSE Node(canonicalize(p))

\* Path::strip_prefix: the rest of path after prefix, as a set: {} when path
\* does not start with prefix.
strip_prefix(path, prefix) ==
    IF Len(prefix) <= Len(path) /\ SubSeq(path, 1, Len(prefix)) = prefix
    THEN {SubSeq(path, Len(prefix) + 1, Len(path))}
    ELSE {}

\* Indexer::new lines 87-95: root.canonicalize(), the root itself on failure.
root_canonical == IF canonicalize(Root) = <<>> THEN Root ELSE canonicalize(Root)

\* indexer.rs is_within_root lines 352-375.
is_within_root(path) ==
    IF strip_prefix(path, root_canonical) # {}
    THEN \A rel \in strip_prefix(path, root_canonical) :
            \A i \in 1..Len(rel) : rel[i] # ".."
    ELSE IF strip_prefix(path, Root) # {}
    THEN \A rel \in strip_prefix(path, Root) : \A i \in 1..Len(rel) : rel[i] # ".."
    ELSE FALSE

\* indexer.rs is_database_file lines 382-414, on the names of the tree: only
\* data.db ends with one of the suffixes.
is_database_file(path) == Len(path) > 0 /\ file_name(path) \in {"data.db"}

\* IndexerConfig.max_file_size, in the unit of the tree's sizes.
max_file_size == 1

\* The type the walker reports for an entry: that of the link's target when it
\* follows links (WalkBuilder::follow_links), that of the entry itself when not.
EntryNode(e) == IF follow_symlinks THEN metadata(e) ELSE symlink_metadata(e)

\* The entries of the directory an entry is, for the walker to yield next.
Children(e) ==
    IF EntryNode(e).type = "dir"
    THEN {Append(e, n) : n \in {m \in Names : symlink_metadata(Append(e, m)).type # "none"}}
    ELSE {}

\* indexer.rs process_entry lines 207-304: whether the entry is upserted.
Indexable(e) ==
    /\ ~is_database_file(e)
    /\ symlink_metadata(e).type # "none"
    /\ symlink_metadata(e).type = "link" =>
          /\ follow_symlinks
          /\ canonicalize(e) # <<>>
          /\ is_within_root(canonicalize(e))
    /\ EntryNode(e).type # "dir"
    /\ EntryNode(e).size <= max_file_size
    /\ strip_prefix(e, Root) # {}

\* The walker yields an entry that exists; process_entry upserts it under its
\* path relative to the root, or skips it.
WalkEntry ==
    \E e \in todo :
        /\ EntryNode(e).type # "none"
        /\ todo' = (todo \ {e}) \cup Children(e)
        /\ yielded' = yielded \cup {e}
        /\ IF Indexable(e)
           THEN \E rel \in strip_prefix(e, Root) :
                  LET st == upsert_file(Current, rel, metadata(e).content,
                                        metadata(e).mtime, metadata(e).size, clock)
                  IN  /\ files' = st.files
                      /\ fts' = st.fts
                      /\ fired' = st.fired
                      /\ readFrom' = readFrom \cup
                                        {[path |-> rel, real |-> canonicalize(e)]}
           ELSE UNCHANGED <<files, fts, fired, readFrom>>
        /\ UNCHANGED <<fsVars, extVars, clock, call, tree, follow_symlinks>>

\* The walker yields an error for a link it follows to nowhere; the loop logs
\* it and goes on (lines 169-174).
WalkError ==
    \E e \in todo :
        /\ EntryNode(e).type = "none"
        /\ todo' = todo \ {e}
        /\ yielded' = yielded \cup {e}
        /\ UNCHANGED <<fsVars, extVars, storeVars, tree, follow_symlinks, readFrom>>

\* Lines 188-203: the walk is over, records of paths that no longer exist
\* under the root are pruned.
WalkFinish ==
    /\ todo = {}
    /\ call.op = "none"
    /\ LET st == prune_missing_files(Current,
                    {rel \in {r.path : r \in files} : metadata(Root \o rel).type # "none"})
       IN  /\ files' = st.files
           /\ fts' = st.fts
           /\ fired' = st.fired
    /\ call' = [NoCall EXCEPT !.op = "prune_missing_files"]
    /\ UNCHANGED <<fsVars, extVars, clock, walkVars>>

\* index_directory has returned.
WalkDone == todo = {} /\ call.op = "prune_missing_files"

InitWalk ==
    /\ FsIdle
    /\ StoreIdle
    /\ OtherIdle
    /\ ShadowIdle
    /\ tree \in Trees
    /\ follow_symlinks \in BOOLEAN
    /\ todo = {Root}
    /\ yielded = {}
    /\ readFrom = {}

NextWalk ==
    \/ WalkEntry
    \/ WalkError
    \/ WalkFinish

SpecWalk == InitWalk /\ [][NextWalk]_vars

\* ------------------------------------------------------ claims on the walk
\* C8 (SpecWalk): once index_directory has returned, for either setting of
\* follow_symlinks and every tree, no record's path begins with ".." and no
\* record was read from a file that resolves outside the canonical root.
C8_NoRecordFromOutside ==
    WalkDone =>
        \A r \in files :
            /\ r.path[1] # ".."
            /\ \A x \in readFrom :
                 x.path = r.path => strip_prefix(x.real, root_canonical) # {}

\* ===================================================================
\* Part IV: index_directory runs on one database
\* ===================================================================

\* The walk yields NEntries files.
NEntries == 4

\* indexer.rs line 107 (50 in the source): the number of stored files after
\* which a run opens its batch transaction.
TRANSACTION_THRESHOLD == 2

\* IndexerConfig.batch_size (500 in the source): the batch_count at which a
\* run commits its batch and opens the next.
batch_size == 4

\* self.config.batch_size of a run: the default, or the value the run was
\* configured with.
config_batch_size == IF input = <<>> THEN batch_size ELSE input.batch_size

\* What process_entry meets at a file: nothing in the way ("ok"), or the
\* failure the file causes.
Kinds == {"ok", "FileTooLarge", "InvalidUtf8", "Io", "PathTraversal"}

\* The runs: one, or two at the same time.
OneRun == {1}

TwoRuns == {1, 2}

IxRuns == DOMAIN ixPc

\* The rows of table files, by the entry of the walk they record: 0 for no
\* row, -1 for a row an earlier run left, else the run that inserted it.  Row
\* 0 records a file that is no longer on disk.
NoRows == [e \in 0..NEntries |-> 0]

PriorRows == [e \in 0..NEntries |-> -1]

NoHist ==
    [rollback |-> FALSE, in_tx |-> FALSE, failed_at |-> 0, discarded |-> {},
     final_commit |-> FALSE, pruned |-> FALSE, optimized |-> FALSE]

\* indexer.rs process_entry up to the upsert: what it returns for a file and
\* what it adds to files_skipped itself.  A file that is too large or not
\* UTF-8, or cannot be read, is skipped inside (lines 257-276); a path that
\* cannot be made relative and an unusable mtime are returned as errors
\* (lines 279-292).
process_entry(kind) ==
    CASE kind = "ok" -> {[ret |-> "upsert", skipped |-> 0]}
      [] kind \in {"FileTooLarge", "InvalidUtf8"} ->
            {[ret |-> "Ok(false)", skipped |-> 1]}
      [] kind = "Io" ->
            {[ret |-> "Ok(false)", skipped |-> 1], [ret |-> "Err(Io)", skipped |-> 0]}
      [] kind = "PathTraversal" -> {[ret |-> "Err(PathTraversal)", skipped |-> 0]}

\* The match arm `Err(e @ IndexerError::Database { .. })` taking every error.
is_database_error_any(ret) == ret \notin {"Ok(true)", "Ok(false)"}

\* indexer.rs line 154: the match arm `Err(e @ IndexerError::Database { .. })`.
is_database_error(ret) == ret \in {"Err(Database)", "Err(Database busy)"}

\* COMMIT losing the writes of the transaction.
commit_nothing(rows, pending, r) == rows

\* COMMIT (or one statement in autocommit mode): the writes become rows.  An
\* upsert of a file that has a row changes nothing, the file being unchanged.
commit(rows, pending, r) ==
    [e \in DOMAIN rows |-> IF e \in pending /\ rows[e] = 0 THEN r ELSE rows[e]]

\* ROLLBACK keeping the writes of the transaction.
rollback_keeps(rows, pending, r) == commit(rows, pending, r)

\* ROLLBACK: the writes of the transaction are gone.
rollback(rows, pending, r) == rows

\* Database::prune_missing_files on the rows of this part: the row of the
\* file that is no longer on disk is deleted, the rows of the files of the
\* walk stay.
prune_missing_rows(rows) == [rows EXCEPT ![0] = 0]

\* The connection of run r can write: no other connection holds the write
\* lock (WAL: one writer at a time).
CanWrite(r) == ixLock \in {0, r}

\* The busy timeout of a statement that needs the write lock may run out
\* while another connection holds it.
Busy(r) == ixLock \notin {0, r}

\* The run returns `result` without touching the database.
IxReturn(r, result) ==
    /\ ixPc' = [ixPc EXCEPT ![r] = "done"]
    /\ ixRes' = [ixRes EXCEPT ![r] = result]

\* indexer.rs lines 154-159: ROLLBACK if transaction_started, return Err(e).
IxAbort(r, result) ==
    /\ IxReturn(r, result)
    /\ ixHist' = [ixHist EXCEPT ![r].rollback = transaction_started[r],
                                ![r].in_tx = (ixLock = r),
                                ![r].failed_at = ixNext[r],
                                ![r].discarded = ixPending[r]]
    /\ IF transaction_started[r]
       THEN /\ ixRows' = rollback(ixRows, ixPending[r], r)
            /\ ixPending' = [ixPending EXCEPT ![r] = {}]
            /\ ixLock' = IF ixLock = r THEN 0 ELSE ixLock
       ELSE UNCHANGED <<ixRows, ixPending, ixLock>>
    /\ UNCHANGED <<ixNext, batch_count, transaction_started, ixStats>>

\* indexer.rs lines 123-168: one turn of the loop, process_entry and the match
\* on its result.  The upsert of process_entry (line 296) writes inside the
\* run's transaction if one is open, else as a statement of its own; it fails
\* when the database rejects it, or when another connection holds the write
\* lock for longer than the busy timeout.
IxEntry(r) ==
    /\ ixPc[r] = "entry"
    /\ ixNext[r] <= Len(ixKinds)
    /\ \E o \in process_entry(ixKinds[ixNext[r]]) :
       \E ret \in (IF o.ret # "upsert" THEN {o.ret}
                   ELSE (IF Busy(r) THEN {"Err(Database busy)"} ELSE {"Ok(true)"})
                        \cup (IF ixFaults THEN {"Err(Database)"} ELSE {})) :
         IF ret = "Ok(true)"
         THEN /\ IF ixLock = r
                 THEN /\ ixPending' = [ixPending EXCEPT ![r] = @ \cup {ixNext[r]}]
                      /\ UNCHANGED ixRows
                 ELSE /\ ixRows' = commit(ixRows, {ixNext[r]}, r)
                      /\ UNCHANGED ixPending
              /\ ixStats' = [ixStats EXCEPT ![r].files_indexed = @ + 1]
              /\ batch_count' = [batch_count EXCEPT ![r] = @ + 1]
              /\ ixNext' = [ixNext EXCEPT ![r] = @ + 1]
              /\ ixPc' = [ixPc EXCEPT ![r] =
                    IF batch_count'[r] = TRANSACTION_THRESHOLD /\ ~transaction_started[r]
                    THEN "begin"
                    ELSE IF transaction_started[r] /\ batch_count'[r] >= config_batch_size
                         THEN "commit_batch"
                         ELSE "entry"]
              /\ UNCHANGED <<ixLock, transaction_started, ixRes, ixHist>>
         ELSE IF ret = "Ok(false)"
         THEN /\ ixStats' = [ixStats EXCEPT ![r].files_skipped = @ + o.skipped]
              /\ ixNext' = [ixNext EXCEPT ![r] = @ + 1]
              /\ UNCHANGED <<ixRows, ixLock, ixPc, batch_count, transaction_started,
                             ixPending, ixRes, ixHist>>
         ELSE IF is_database_error(ret)
         THEN IxAbort(r, ret)
         ELSE /\ ixStats' = [ixStats EXCEPT ![r].files_skipped = @ + 1]
              /\ ixNext' = [ixNext EXCEPT ![r] = @ + 1]
              /\ UNCHANGED <<ixRows, ixLock, ixPc, batch_count, transaction_started,
                             ixPending, ixRes, ixHist>>
    /\ UNCHANGED <<ixKinds, ixFaults>>
    /\ UNCHANGED <<fsVars, storeVars, walkVars, rootVars, searchVars, shadowVars, unitVars>>

\* BEGIN IMMEDIATE at the threshold without line 137: transaction_started
\* stays false.
IxBeginNoFlag(r) ==
    /\ ixPc[r] = "begin"
    /\ CanWrite(r)
    /\ ixLock' = r
    /\ ixPc' = [ixPc EXCEPT ![r] = "entry"]
    /\ UNCHANGED <<ixKinds, ixFaults, ixRows, ixNext, batch_count, ixPending,
                   ixStats, ixHist, ixRes, transaction_started>>
    /\ UNCHANGED <<fsVars, storeVars, walkVars, rootVars, searchVars, shadowVars, unitVars>>

\* indexer.rs lines 131-137: BEGIN IMMEDIATE at the threshold.
IxBegin(r) ==
    /\ ixPc[r] = "begin"
    /\ \/ /\ CanWrite(r)
          /\ ixLock' = r
          /\ transaction_started' = [transaction_started EXCEPT ![r] = TRUE]
          /\ ixPc' = [ixPc EXCEPT ![r] =
                IF batch_count[r] >= config_batch_size THEN "commit_batch" ELSE "entry"]
          /\ UNCHANGED ixRes
       \/ /\ Busy(r)
          /\ IxReturn(r, "Err(Database busy)")
          /\ UNCHANGED <<ixLock, transaction_started>>
    /\ UNCHANGED <<ixKinds, ixFaults, ixRows, ixNext, batch_count, ixPending,
                   ixStats, ixHist>>
    /\ UNCHANGED <<fsVars, storeVars, walkVars, rootVars, searchVars, shadowVars, unitVars>>

\* indexer.rs lines 141-145: COMMIT of a full batch.
IxCommitBatch(r) ==
    /\ ixPc[r] = "commit_batch"
    /\ ixRows' = commit(ixRows, ixPending[r], r)
    /\ ixPending' = [ixPending EXCEPT ![r] = {}]
    /\ ixLock' = 0
    /\ ixPc' = [ixPc EXCEPT ![r] = "rebegin"]
    /\ UNCHANGED <<ixKinds, ixFaults, ixNext, batch_count, transaction_started,
                   ixStats, ixRes, ixHist>>
    /\ UNCHANGED <<fsVars, storeVars, walkVars, rootVars, searchVars, shadowVars, unitVars>>

\* indexer.rs lines 146-150: BEGIN IMMEDIATE of the next batch, batch_count
\* back to the threshold.
IxRebegin(r) ==
    /\ ixPc[r] = "rebegin"
    /\ \/ /\ CanWrite(r)
          /\ ixLock' = r
          /\ batch_count' = [batch_count EXCEPT ![r] = TRANSACTION_THRESHOLD]
          /\ ixPc' = [ixPc EXCEPT ![r] = "entry"]
          /\ UNCHANGED ixRes
       \/ /\ Busy(r)
          /\ IxReturn(r, "Err(Database busy)")
          /\ UNCHANGED <<ixLock, batch_count>>
    /\ UNCHANGED <<ixKinds, ixFaults, ixRows, ixNext, transaction_started,
                   ixPending, ixStats, ixHist>>
    /\ UNCHANGED <<fsVars, storeVars, walkVars, rootVars, searchVars, shadowVars, unitVars>>

\* indexer.rs lines 178-185: after the loop, COMMIT if transaction_started.
IxFinalCommit(r) ==
    /\ ixPc[r] = "entry"
    /\ ixNext[r] > Len(ixKinds)
    /\ IF transaction_started[r]
       THEN /\ ixRows' = commit(ixRows, ixPending[r], r)
            /\ ixPending' = [ixPending EXCEPT ![r] = {}]
            /\ ixLock' = 0
            /\ ixHist' = [ixHist EXCEPT ![r].final_commit = TRUE]
       ELSE UNCHANGED <<ixRows, ixPending, ixLock, ixHist>>
    /\ ixPc' = [ixPc EXCEPT ![r] = "prune"]
    /\ UNCHANGED <<ixKinds, ixFaults, ixNext, batch_count, transaction_started,
                   ixStats, ixRes>>
    /\ UNCHANGED <<fsVars, storeVars, walkVars, rootVars, searchVars, shadowVars, unitVars>>

\* index_directory without line 188: the rows are left as they are.
IxPruneSkipped(r) ==
    /\ ixPc[r] = "prune"
    /\ ixHist' = [ixHist EXCEPT ![r].pruned = TRUE]
    /\ ixPc' = [ixPc EXCEPT ![r] = "optimize"]
    /\ UNCHANGED <<ixKinds, ixFaults, ixRows, ixLock, ixNext, batch_count,
                   transaction_started, ixPending, ixStats, ixRes>>
    /\ UNCHANGED <<fsVars, storeVars, walkVars, rootVars, searchVars, shadowVars, unitVars>>

\* indexer.rs line 188: prune_missing_files deletes the rows of the files that
\* are no longer on disk.
IxPrune(r) ==
    /\ ixPc[r] = "prune"
    /\ \/ /\ CanWrite(r)
          /\ ixRows' = prune_missing_rows(ixRows)
          /\ ixHist' = [ixHist EXCEPT ![r].pruned = TRUE]
          /\ ixPc' = [ixPc EXCEPT ![r] = "optimize"]
          /\ UNCHANGED ixRes
       \/ /\ Busy(r)
          /\ IxReturn(r, "Err(Database busy)")
          /\ UNCHANGED <<ixRows, ixHist>>
    /\ UNCHANGED <<ixKinds, ixFaults, ixLock, ixNext, batch_count,
                   transaction_started, ixPending, ixStats>>
    /\ UNCHANGED <<fsVars, storeVars, walkVars, rootVars, searchVars, shadowVars, unitVars>>

\* indexer.rs lines 193-203: ANALYZE, optimize, optimize_fts, their results
\* dropped, and Ok(stats).
IxOptimize(r) ==
    /\ ixPc[r] = "optimize"
    /\ ixHist' = [ixHist EXCEPT ![r].optimized = TRUE]
    /\ IxReturn(r, "Ok")
    /\ UNCHANGED <<ixKinds, ixFaults, ixRows, ixLock, ixNext, batch_count,
                   transaction_started, ixPending, ixStats>>
    /\ UNCHANGED <<fsVars, storeVars, walkVars, rootVars, searchVars, shadowVars, unitVars>>

index_directory(r) ==
    \/ IxEntry(r)
    \/ IxBegin(r)
    \/ IxCommitBatch(r)
    \/ IxRebegin(r)
    \/ IxFinalCommit(r)
    \/ IxPrune(r)
    \/ IxOptimize(r)

\* The runs `runs` start on a database that holds the schema and either no
\* row or the rows of an earlier run.
InitIndex(runs, kinds, faults) ==
    /\ FsIdle
    /\ StoreIdle
    /\ WalkIdle
    /\ RootIdle
    /\ SearchIdle
    /\ ShadowIdle
    /\ UnitIdle
    /\ ixKinds \in [1..NEntries -> kinds]
    /\ ixFaults \in faults
    /\ ixRows \in {NoRows, PriorRows}
    /\ ixLock = 0
    /\ ixPc = [r \in runs |-> "entry"]
    /\ ixNext = [r \in runs |-> 1]
    /\ batch_count = [r \in runs |-> 0]
    /\ transaction_started = [r \in runs |-> FALSE]
    /\ ixPending = [r \in runs |-> {}]
    /\ ixStats = [r \in runs |-> [files_indexed |-> 0, files_skipped |-> 0]]
    /\ ixRes = [r \in runs |-> "none"]
    /\ ixHist = [r \in runs |-> NoHist]

\* One run, every kind of file, the database free to reject an upsert.
InitIndexSolo == InitIndex(OneRun, Kinds, BOOLEAN)

NextIndexSolo == \E r \in IxRuns : index_directory(r)

SpecIndexSolo == InitIndexSolo /\ [][NextIndexSolo]_vars

\* Two runs at the same time, the database rejecting nothing.
InitIndexRace == InitIndex(TwoRuns, {"ok", "FileTooLarge"}, {FALSE})

NextIndexRace == \E r \in IxRuns : index_directory(r)

SpecIndexRace == InitIndexRace /\ [][NextIndexRace]_vars

\* One run with any batch_size from 0 up, below, at and above the threshold.
BatchSizes == 0..batch_size

InitIndexBatch ==
    /\ FsIdle
    /\ StoreIdle
    /\ WalkIdle
    /\ RootIdle
    /\ SearchIdle
    /\ ShadowIdle
    /\ input \in [batch_size : BatchSizes]
    /\ output = <<>>
    /\ ixKinds \in [1..NEntries -> {"ok", "FileTooLarge", "PathTraversal"}]
    /\ ixFaults \in BOOLEAN
    /\ ixRows = NoRows
    /\ ixLock = 0
    /\ ixPc = [r \in OneRun |-> "entry"]
    /\ ixNext = [r \in OneRun |-> 1]
    /\ batch_count = [r \in OneRun |-> 0]
    /\ transaction_started = [r \in OneRun |-> FALSE]
    /\ ixPending = [r \in OneRun |-> {}]
    /\ ixStats = [r \in OneRun |-> [files_indexed |-> 0, files_skipped |-> 0]]
    /\ ixRes = [r \in OneRun |-> "none"]
    /\ ixHist = [r \in OneRun |-> NoHist]

NextIndexBatch == \E r \in IxRuns : index_directory(r)

SpecIndexBatch == InitIndexBatch /\ [][NextIndexBatch]_vars

IxReturned(r) == ixPc[r] = "done"

\* The files of the walk that can be indexed.
IxIndexable == {e \in DOMAIN ixKinds : ixKinds[e] = "ok"}

\* ------------------------------------------------- claims on index_directory
\* C11 (SpecIndexRace): when two index_directory runs execute at the same
\* time on one database file, at least one completes successfully, a run
\* that fails fails with a Database busy error only, and once both have
\* returned the database is usable (no transaction is left open) and holds a
\* record for every indexable file.
C11_ConcurrentRuns ==
    /\ \A r \in IxRuns : ixRes[r] \in {"none", "Ok", "Err(Database busy)"}
    /\ (\A r \in IxRuns : IxReturned(r)) =>
          /\ \E r \in IxRuns : ixRes[r] = "Ok"
          /\ ixLock = 0
          /\ \A r \in IxRuns : ixPending[r] = {}
          /\ \A e \in IxIndexable : ixRows[e] # 0

\* Both runs have returned, one with a busy error after storing a file, the
\* other successfully after a batch transaction.
C11_Witness ==
    /\ \A r \in IxRuns : IxReturned(r)
    /\ \E r \in IxRuns :
         /\ ixRes[r] = "Err(Database busy)"
         /\ \E e \in IxIndexable : ixRows[e] = r
    /\ \E r \in IxRuns :
         /\ ixRes[r] = "Ok"
         /\ ixHist[r].final_commit
         /\ \E e \in IxIndexable : ixRows[e] = r

\* C12 (SpecIndexSolo): if storing an entry fails with a Database error,
\* index_directory stops at that entry and returns the error: ROLLBACK is
\* issued exactly when a batch transaction is open, no further entry is
\* processed, neither the final COMMIT nor prune_missing_files nor the
\* optimize steps run, and no write made inside the open batch is visible
\* afterwards.
C12_DatabaseErrorAborts ==
    \A r \in IxRuns :
        ixHist[r].failed_at # 0 =>
            /\ IxReturned(r)
            /\ ixRes[r] = "Err(Database)"
            /\ ixHist[r].rollback <=> ixHist[r].in_tx
            /\ ixNext[r] = ixHist[r].failed_at
            /\ ixStats[r].files_indexed + ixStats[r].files_skipped
                  = ixHist[r].failed_at - 1
            /\ ~ixHist[r].final_commit
            /\ ~ixHist[r].pruned
            /\ ~ixHist[r].optimized
            /\ \A e \in ixHist[r].discarded : ixRows[e] # r
            /\ ixPending[r] = {}
            /\ ixLock # r

\* An upsert failed inside a batch transaction that held a write: the run
\* rolled back and returned the error.
C12_Witness ==
    \E r \in IxRuns :
        /\ IxReturned(r)
        /\ ixRes[r] = "Err(Database)"
        /\ ixHist[r].rollback
        /\ ixHist[r].discarded # {}
        /\ ixRows = [e \in 0..NEntries |->
                        IF e \in 1..TRANSACTION_THRESHOLD THEN r ELSE 0]

C21_PruneRemovesExactlyMissing ==
    [][\A r \in IxRuns :
          /\ ixRes'[r] = "Ok" => ixRows'[0] = 0
          /\ (ixPc[r] = "prune" /\ ixPc'[r] # "prune") =>
                 \A e \in 1..NEntries : ixRows'[e] = ixRows[e]]_vars

\* C21 witness: a successful run on a database of an earlier run: the row of
\* the missing file is gone, the row of a file that is on disk but was skipped
\* in this run is still there, and files were indexed in this run.
C21_Witness ==
    \E r \in IxRuns :
        /\ ixRes[r] = "Ok"
        /\ ixHist[r].pruned
        /\ ixRows[0] = 0
        /\ \E e \in 1..NEntries : ixKinds[e] # "ok" /\ ixRows[e] = -1
        /\ ixStats[r].files_indexed > 0

\* C30 (SpecIndexSolo): in batched mode index_directory issues COMMIT and
\* BEGIN IMMEDIATE after every batch_size entries stored since the previous
\* BEGIN IMMEDIATE, and on completion it has committed the final batch.
C30_CommitEveryBatchSize ==
    \A r \in IxRuns :
        /\ ixPc[r] = "commit_batch" => Cardinality(ixPending[r]) = batch_size
        /\ Cardinality(ixPending[r]) <= batch_size
        /\ (ixRes[r] = "Ok" /\ transaction_started[r]) =>
              ixHist[r].final_commit /\ ixPending[r] = {}

\* C31 (SpecIndexSolo): during a run the files are stored one at a time in
\* the order of the walk, and a row of the run becomes visible to a reader of
\* the database only in a step that commits the batch transaction (the COMMIT
\* of a full batch or the final COMMIT), never in the step of a single file.
C31_OnlyBatchCommitsObservable ==
    [][\A r \in IxRuns :
          /\ ixNext'[r] \in {ixNext[r], ixNext[r] + 1}
          /\ (\E e \in 1..NEntries : ixRows'[e] # ixRows[e] /\ ixRows'[e] = r) =>
                 /\ transaction_started[r]
                 /\ \/ ixPc[r] = "commit_batch"
                    \/ ixPc[r] = "entry" /\ ixNext[r] > Len(ixKinds)]_vars

\* C32 (SpecIndexBatch): for every batch_size, BEGIN IMMEDIATE is issued only
\* while no batch transaction is open, COMMIT and ROLLBACK only while one is
\* open; the first BEGIN IMMEDIATE comes right after the stored entry that
\* brings the number of stored entries to the threshold, the entries before
\* it being committed one by one and skipped entries not counting; a
\* successful run ends with no transaction open.
C32_TransactionDiscipline ==
    \A r \in IxRuns :
        /\ ixPc[r] \in {"begin", "rebegin"} => ixLock # r
        /\ ixPc[r] = "commit_batch" => ixLock = r
        /\ (ixPc[r] = "entry" /\ ixNext[r] > Len(ixKinds) /\ transaction_started[r]) =>
              ixLock = r
        /\ ixHist[r].rollback => ixHist[r].in_tx
        /\ ixPc[r] = "begin" =>
              /\ ~transaction_started[r]
              /\ ixStats[r].files_indexed = TRANSACTION_THRESHOLD
              /\ ixKinds[ixNext[r] - 1] = "ok"
              /\ Cardinality({e \in 1..NEntries : ixRows[e] = r}) = TRANSACTION_THRESHOLD
        /\ ixStats[r].files_indexed < TRANSACTION_THRESHOLD =>
              /\ ~transaction_started[r]
              /\ ixLock # r
              /\ ixPc[r] # "begin"
              /\ Cardinality({e \in 1..NEntries : ixRows[e] = r}) = ixStats[r].files_indexed
        /\ (ixStats[r].files_indexed >= TRANSACTION_THRESHOLD /\ ixPc[r] # "begin") =>
              transaction_started[r]
        /\ ixRes[r] = "Ok" => ixLock # r /\ ixPending[r] = {}

\* C32 witness: a run with a batch_size below the threshold skipped a file
\* before the threshold, opened its transaction, stored a file in it and
\* returned success after the final COMMIT.
C32_Witness ==
    \E r \in IxRuns :
        /\ input # <<>>
        /\ input.batch_size < TRANSACTION_THRESHOLD
        /\ ixRes[r] = "Ok"
        /\ ixHist[r].final_commit
        /\ ixKinds[1] # "ok"
        /\ ixStats[r].files_indexed > TRANSACTION_THRESHOLD
        /\ ixLock = 0

\* ===================================================================
\* Part V: project-root detection
\* ===================================================================

\* start_dir.ancestors() yields at most MaxDepth directories.
MaxDepth == 3

\* The application id the test of a foreign database stamps.
FOREIGN_ID == 305419896

\* What <ancestor>/<DB_NAME> may hold: nothing, a file that is not a
\* database, a file that cannot be opened, a zero-byte file (it opens and
\* reads application id 0), a database of another application, a database of
\* this application without rows.
RootDbs ==
    {NoFile, Garbage, Unreadable,
     DbFile(UnstampedId, FALSE, {}, TRUE, TRUE, 0),
     DbFile(FOREIGN_ID, TRUE, {}, TRUE, TRUE, 0),
     DbFile(APPLICATION_ID_I32, TRUE, {}, TRUE, TRUE, 0)}

\* One ancestor: what its <DB_NAME> holds and whether it contains .git.
Ancestors == [db : RootDbs, git : BOOLEAN]

\* health.rs is_valid_ffts_database with the file's existence as its only
\* test.
is_valid_ffts_database_exists(d) == Exists(d)

\* health.rs is_valid_ffts_database
is_valid_ffts_database(d) ==
    IF ~Exists(d) THEN FALSE
    ELSE IF d.kind = "unreadable" THEN FALSE
    ELSE get_application_id(d) = {APPLICATION_ID_I32}

NotFound == [path |-> 0, method |-> "none"]

\* find_project_root, one turn of the loop over start_dir.ancestors().
FindVisit ==
    /\ found = NotFound
    /\ ancestor <= Len(dirs)
    /\ IF is_valid_ffts_database(dirs[ancestor].db)
       THEN /\ found' = [path |-> ancestor, method |-> "ExistingDatabase"]
            /\ UNCHANGED <<ancestor, git_root>>
       ELSE /\ git_root' = IF git_root = 0 /\ dirs[ancestor].git
                           THEN ancestor ELSE git_root
            /\ ancestor' = ancestor + 1
            /\ UNCHANGED found
    /\ UNCHANGED <<dirs, fsVars, storeVars, walkVars, indexVars, searchVars,
                   shadowVars, unitVars>>

\* find_project_root, after the loop: the git root if one was seen, else
\* start_dir.
FindReturn ==
    /\ found = NotFound
    /\ ancestor > Len(dirs)
    /\ found' = IF git_root # 0
                THEN [path |-> git_root, method |-> "GitRepository"]
                ELSE [path |-> 1, method |-> "Fallback"]
    /\ UNCHANGED <<dirs, ancestor, git_root, fsVars, storeVars, walkVars,
                   indexVars, searchVars, shadowVars, unitVars>>

InitRoot ==
    /\ FsIdle
    /\ StoreIdle
    /\ WalkIdle
    /\ IndexIdle
    /\ SearchIdle
    /\ ShadowIdle
    /\ UnitIdle
    /\ \E n \in 1..MaxDepth : dirs \in [1..n -> Ancestors]
    /\ ancestor = 1
    /\ git_root = 0
    /\ found = NotFound

NextRoot ==
    \/ FindVisit
    \/ FindReturn

SpecRoot == InitRoot /\ [][NextRoot]_vars

\* ------------------------------------------- claims on project-root detection
\* C15 (SpecRoot): find_project_root(start) returns (A, existing_db) for the
\* nearest ancestor A whose database opens read-only and has this
\* application's id, whenever there is one, even if a nearer ancestor
\* contains .git; otherwise (V, vcs) for the nearest ancestor V containing
\* .git; otherwise (start, fallback).  An ancestor whose database is empty,
\* malformed or foreign is never chosen as existing_db.
C15_RootPriority ==
    found # NotFound =>
        LET valid == {i \in DOMAIN dirs :
                        /\ dirs[i].db.kind = "db"
                        /\ dirs[i].db.app = APPLICATION_ID_I32}
            vcs == {i \in DOMAIN dirs : dirs[i].git}
        IN  /\ valid # {} =>
                /\ found.method = "ExistingDatabase"
                /\ found.path \in valid
                /\ \A i \in valid : found.path <= i
            /\ (valid = {} /\ vcs # {}) =>
                /\ found.method = "GitRepository"
                /\ found.path \in vcs
                /\ \A i \in vcs : found.path <= i
            /\ (valid = {} /\ vcs = {}) =>
                /\ found.method = "Fallback"
                /\ found.path = 1
            /\ found.method = "ExistingDatabase" =>
                dirs[found.path].db \notin
                    {NoFile, Garbage, Unreadable,
                     DbFile(UnstampedId, FALSE, {}, TRUE, TRUE, 0),
                     DbFile(FOREIGN_ID, TRUE, {}, TRUE, TRUE, 0)}

\* The call returned the third ancestor for its database, past a nearer
\* ancestor containing .git and a nearer foreign database.
C15_Witness ==
    /\ found = [path |-> 3, method |-> "ExistingDatabase"]
    /\ dirs[1].git
    /\ dirs[2].db = DbFile(FOREIGN_ID, TRUE, {}, TRUE, TRUE, 0)
    /\ dirs[1].db = DbFile(UnstampedId, FALSE, {}, TRUE, TRUE, 0)

\* ===================================================================
\* Part VI: the searcher
\* ===================================================================

\* A query holds at most MaxQueryLen characters.
MaxQueryLen == 3

\* A string is the sequence of its characters; the queries are written with
\* a letter, a blank, the wildcard and the hyphen.
Alphabet == {"a", " ", "*", "-"}

Strings(n) == UNION {[1..k -> Alphabet] : k \in 0..n}

\* char::is_whitespace
is_whitespace(ch) == ch \in {" ", "\n", "\r", "\t"}

\* search.rs sanitize_query: the characters of the two match arms that push
\* a blank.
SpecialChars ==
    {"*", "\"", "(", ")", ":", "^", "@", "~",
     "-", "_", ".", "/", "\\", "[", "]", "{", "}", "+", "!", "=", ">", "<",
     "&", "|"}

RECURSIVE trim_start(_)
trim_start(str) ==
    IF str # <<>> /\ is_whitespace(Head(str)) THEN trim_start(Tail(str))
    ELSE str

RECURSIVE trim_end(_)
trim_end(str) ==
    IF str # <<>> /\ is_whitespace(str[Len(str)])
    THEN trim_end(SubSeq(str, 1, Len(str) - 1))
    ELSE str

\* str::trim
trim(str) == trim_end(trim_start(str))

\* str::ends_with(char)
ends_with(str, ch) == str # <<>> /\ str[Len(str)] = ch

\* str::split_whitespace: the maximal runs of characters that are not
\* whitespace, in their order; a run goes from a start, a character that is
\* not whitespace and follows whitespace or nothing, to the next end.
split_whitespace(str) ==
    LET word(i) == i \in DOMAIN str /\ ~is_whitespace(str[i])
        starts == {i \in DOMAIN str : word(i) /\ ~word(i - 1)}
        ends == {i \in DOMAIN str : word(i) /\ ~word(i + 1)}
        start(k) == CHOOSE i \in starts : Cardinality({j \in starts : j < i}) = k - 1
        end(k) == CHOOSE i \in ends : Cardinality({j \in ends : j < i}) = k - 1
    IN  [k \in 1..Cardinality(starts) |-> SubSeq(str, start(k), end(k))]

\* [&str]::join(" "), the first half of the words and the second half joined
\* each and then to each other.
RECURSIVE join(_)
join(words) ==
    IF words = <<>> THEN <<>>
    ELSE IF Len(words) = 1 THEN words[1]
    ELSE join(SubSeq(words, 1, Len(words) \div 2)) \o <<" ">>
         \o join(SubSeq(words, Len(words) \div 2 + 1, Len(words)))

\* sanitize_query appending the wildcard also to an empty text.
sanitize_query_always_prefix(q) ==
    LET trimmed == trim(q)
        auto_prefix == ends_with(trimmed, "-") \/ ends_with(trimmed, "_")
        result == [i \in 1..Len(trimmed) |->
                     IF trimmed[i] \in SpecialChars THEN " " ELSE trimmed[i]]
        sanitized_ == join(split_whitespace(result))
    IN  IF auto_prefix THEN Append(sanitized_, "*") ELSE sanitized_

\* search.rs Searcher::sanitize_query
sanitize_query(q) ==
    LET trimmed == trim(q)
        auto_prefix == ends_with(trimmed, "-") \/ ends_with(trimmed, "_")
        result == [i \in 1..Len(trimmed) |->
                     IF trimmed[i] \in SpecialChars THEN " " ELSE trimmed[i]]
        sanitized_ == join(split_whitespace(result))
    IN  IF auto_prefix /\ sanitized_ # <<>> THEN Append(sanitized_, "*")
        ELSE sanitized_

\* A caller sanitizes the query.
SanitizeQuery ==
    /\ sanitized = <<>>
    /\ sanitized' = <<sanitize_query(query)>>
    /\ UNCHANGED <<query, max_results, paths_only, docs, others, results, searchPc>>
    /\ UNCHANGED <<fsVars, storeVars, walkVars, indexVars, rootVars, shadowVars, unitVars>>

\* A caller sanitizes what the sanitizer returned.
SanitizeAgain ==
    /\ Len(sanitized) = 1
    /\ sanitized' = Append(sanitized, sanitize_query(sanitized[1]))
    /\ UNCHANGED <<query, max_results, paths_only, docs, others, results, searchPc>>
    /\ UNCHANGED <<fsVars, storeVars, walkVars, indexVars, rootVars, shadowVars, unitVars>>

InitSanitize ==
    /\ FsIdle
    /\ StoreIdle
    /\ WalkIdle
    /\ IndexIdle
    /\ RootIdle
    /\ ShadowIdle
    /\ UnitIdle
    /\ query \in Strings(MaxQueryLen)
    /\ sanitized = <<>>
    /\ max_results = 0
    /\ paths_only = FALSE
    /\ docs = {}
    /\ others = 0
    /\ results = <<>>
    /\ searchPc = "idle"

NextSanitize ==
    \/ SanitizeQuery
    \/ SanitizeAgain

SpecSanitize == InitSanitize /\ [][NextSanitize]_vars

\* The raw queries of every kind of character: a letter, a blank, a tab, a
\* removed operator, and the two characters that ask for a prefix search.
RawQueries == UNION {[1..k -> {"a", " ", "\t", "*", "-", "_"}] : k \in 0..MaxQueryLen}

InitSanitizeRaw ==
    /\ FsIdle
    /\ StoreIdle
    /\ WalkIdle
    /\ IndexIdle
    /\ RootIdle
    /\ ShadowIdle
    /\ UnitIdle
    /\ query \in RawQueries
    /\ sanitized = <<>>
    /\ max_results = 0
    /\ paths_only = FALSE
    /\ docs = {}
    /\ others = 0
    /\ results = <<>>
    /\ searchPc = "idle"

SpecSanitizeRaw == InitSanitizeRaw /\ [][NextSanitize]_vars

\* ------------------------------------------------- claims on the sanitizer
\* C16 (SpecSanitize): the query sanitizer is idempotent: for every query q,
\* sanitize(sanitize(q)) equals sanitize(q).
C16_SanitizeIdempotent ==
    Len(sanitized) = 2 => sanitized[2] = sanitized[1]

\* C25 (SpecSanitizeRaw): for every raw query, the sanitized text has no
\* leading, trailing or consecutive whitespace, holds none of the special
\* characters but at most one '*' as its last character, and ends with '*'
\* exactly when the trimmed query ends with '-' or '_' and the sanitized text
\* before that '*' is not empty.
C25_SanitizedShape ==
    Len(sanitized) >= 1 =>
        LET str == sanitized[1]
            trimmed == trim(query)
            rest == IF ends_with(str, "*") THEN SubSeq(str, 1, Len(str) - 1) ELSE str
        IN  /\ str # <<>> => ~is_whitespace(str[1]) /\ ~is_whitespace(str[Len(str)])
            /\ \A i \in 1..(Len(str) - 1) :
                  ~(is_whitespace(str[i]) /\ is_whitespace(str[i + 1]))
            /\ \A i \in 1..Len(str) :
                  str[i] \in SpecialChars => str[i] = "*" /\ i = Len(str)
            /\ ends_with(str, "*") <=>
                  /\ ends_with(trimmed, "-") \/ ends_with(trimmed, "_")
                  /\ rest # <<>>

\* C25 witness: a query of a letter, a tab and an underscore was sanitized to
\* the letter and the wildcard.
C25_Witness ==
    /\ Len(sanitized) >= 1
    /\ query = <<"a", "\t", "_">>
    /\ sanitized[1] = <<"a", "*">>

\* ------------------------------------------------------------- the searcher
\* Searcher::search returns at most MaxResults results.
MaxResults == 2

\* The longest query has LongQueryWords words.
LongQueryWords == 100

\* The query "a a ... a" of LongQueryWords words.
LongQuery == join([i \in 1..LongQueryWords |-> <<"a">>])

\* search.rs line 91: the rank of a filename match, in thousandths.
FILENAME_RANK == -1000000

\* The rows the searcher reads: the path as its components and the words of
\* the content, every name and word a string of letters.  The files a, a/b,
\* aa (holding the word a) and b (holding the word a).
SearchDocs ==
    {[path |-> << <<"a">> >>, content |-> {}],
     [path |-> << <<"a">>, <<"b">> >>, content |-> {}],
     [path |-> << <<"a", "a">> >>, content |-> {<<"a">>}],
     [path |-> << <<"b">> >>, content |-> {<<"a">>}]}

\* How many further rows the tables may hold, none of them matching a query.
OtherRows == {0, 1000}

\* str::starts_with
starts_with(str, prefix) ==
    Len(prefix) <= Len(str) /\ SubSeq(str, 1, Len(prefix)) = prefix

\* SQLite lower(): the ASCII letters only.
lower(str) ==
    [i \in DOMAIN str |->
        CASE str[i] = "A" -> "a"
          [] str[i] = "B" -> "b"
          [] OTHER -> str[i]]

\* escape_like_pattern without the escaping.
escape_like_pattern_none(str) == str

\* db.rs escape_like_pattern lines 678-689, the first half of the input and
\* the second half escaped each.
RECURSIVE escape_like_pattern(_)
escape_like_pattern(str) ==
    IF str = <<>> THEN <<>>
    ELSE IF Len(str) = 1
    THEN (IF str[1] \in {"\\", "%", "_"} THEN <<"\\", str[1]>> ELSE str)
    ELSE escape_like_pattern(SubSeq(str, 1, Len(str) \div 2))
         \o escape_like_pattern(SubSeq(str, Len(str) \div 2 + 1, Len(str)))

\* SQLite's LIKE with ESCAPE '\': whether str from its i-th character matches
\* pattern from its j-th; '%' stands for any characters, '_' for one, the
\* character after the escape for itself, and ASCII letters match in either
\* case.
RECURSIVE like_from(_, _, _, _)
like_from(str, i, pattern, j) ==
    IF j > Len(pattern) THEN i > Len(str)
    ELSE IF pattern[j] = "%"
    THEN \/ like_from(str, i, pattern, j + 1)
         \/ i <= Len(str) /\ like_from(str, i + 1, pattern, j)
    ELSE IF pattern[j] = "_"
    THEN i <= Len(str) /\ like_from(str, i + 1, pattern, j + 1)
    ELSE IF pattern[j] = "\\"
    THEN /\ j < Len(pattern)
         /\ i <= Len(str)
         /\ lower(<<str[i]>>) = lower(<<pattern[j + 1]>>)
         /\ like_from(str, i + 1, pattern, j + 2)
    ELSE /\ i <= Len(str)
         /\ lower(<<str[i]>>) = lower(<<pattern[j]>>)
         /\ like_from(str, i + 1, pattern, j + 1)

\* str LIKE pattern ESCAPE '\'
like(str, pattern) == like_from(str, 1, pattern, 1)

\* str::trim_end_matches(char)
RECURSIVE trim_end_matches(_, _)
trim_end_matches(str, ch) ==
    IF ends_with(str, ch) THEN trim_end_matches(SubSeq(str, 1, Len(str) - 1), ch)
    ELSE str

\* The orders in which a SELECT may return the rows S under an ORDER BY that
\* puts d no later than e when <<d, e>> is in `before`: rows that tie come in
\* any order.
OrderedBy(S, before) ==
    {o \in [1..Cardinality(S) -> S] :
        /\ \A i, j \in 1..Cardinality(S) : i # j => o[i] # o[j]
        /\ \A i, j \in 1..Cardinality(S) : i < j => <<o[i], o[j]>> \in before}

\* LIMIT n
Limit(rows, n) == SubSeq(rows, 1, IF n < Len(rows) THEN n ELSE Len(rows))

\* db.rs search_filename_contains, the CASE of its ORDER BY.
filename_case(d, search_term, like_term) ==
    IF lower(file_name(d.path)) = lower(search_term) THEN 0
    ELSE IF like(lower(file_name(d.path)), lower(like_term) \o <<"%">>) THEN 1
    ELSE 2

\* db.rs search_filename_contains: the lists of paths it may return.
search_filename_contains(rows, q, limit) ==
    LET search_term == trim_end_matches(trim(q), "*")
        like_term == escape_like_pattern(search_term)
        hits == {d \in rows :
                    like(file_name(d.path), <<"%">> \o like_term \o <<"%">>)}
        case(d) == filename_case(d, search_term, like_term)
        before ==
            {de \in hits \X hits :
                \/ case(de[1]) < case(de[2])
                \/ /\ case(de[1]) = case(de[2])
                   /\ Len(file_name(de[1].path)) <= Len(file_name(de[2].path))}
    IN  IF trim(q) = <<>> \/ search_term = <<>> THEN {<<>>}
        ELSE {Limit([i \in DOMAIN o |-> o[i].path], limit) :
                o \in OrderedBy(hits, before)}

\* FTS5: a token matches a query term when it is the term, or begins with it
\* when the term ends in the prefix star.
token_matches(token, term) ==
    IF ends_with(term, "*") THEN starts_with(token, trim_end_matches(term, "*"))
    ELSE token = term

\* FTS5 bm25(files_fts, 100.0, 50.0, 1.0): the weighted number of places
\* where the row matches the term, columns filename, path, content; with
\* `path MATCH` only the path column is searched.
weighted_freq(d, term, po) ==
    LET in_filename == IF token_matches(file_name(d.path), term) THEN 1 ELSE 0
        in_path == Cardinality({i \in DOMAIN d.path : token_matches(d.path[i], term)})
        in_content == Cardinality({w \in d.content : token_matches(w, term)})
    IN  IF po THEN 50 * in_path
        ELSE 100 * in_filename + 50 * in_path + in_content

\* The whole number of times den doubles without exceeding num.
RECURSIVE floor_log2(_, _)
floor_log2(num, den) ==
    IF num < 2 * den THEN 0 ELSE 1 + floor_log2(num, 2 * den)

\* FTS5 bm25: the inverse document frequency ln((N - n + 0.5) / (n + 0.5)) of
\* a term that n of N rows match, in thousandths and rounded down to a
\* multiple of ln 2 (0.693); FTS5 replaces a value that is not positive by
\* 0.000001, which is 0 thousandths.
idf(N, n) == 693 * floor_log2(2 * (N - n) + 1, 2 * n + 1)

\* FTS5 bm25: what one query term adds to the score of row d, in thousandths,
\* k1 = 1.2 and the row of average length: idf * f * (k1 + 1) / (f + k1).
phrase_score(rows, N, d, term, po) ==
    LET n == Cardinality({e \in rows : weighted_freq(e, term, po) > 0})
        f == weighted_freq(d, term, po)
    IN  (idf(N, n) * f * 22) \div (f * 10 + 12)

\* FTS5 bm25: the rank of row d is minus the sum over the query's terms, each
\* term a phrase of its own even when it repeats (the sum taken over the
\* first half of the terms and over the second half).
RECURSIVE bm25(_, _, _, _, _)
bm25(rows, N, d, terms, po) ==
    IF terms = <<>> THEN 0
    ELSE IF Len(terms) = 1 THEN 0 - phrase_score(rows, N, d, terms[1], po)
    ELSE bm25(rows, N, d, SubSeq(terms, 1, Len(terms) \div 2), po)
         + bm25(rows, N, d, SubSeq(terms, Len(terms) \div 2 + 1, Len(terms)), po)

\* db.rs Database::search: the lists of results it may return.  The query is
\* the implicit AND of its terms.
db_search(rows, N, q, po, limit) ==
    LET terms == split_whitespace(q)
        hits == {d \in rows :
                    \A i \in DOMAIN terms : weighted_freq(d, terms[i], po) > 0}
        before ==
            {de \in hits \X hits :
                bm25(rows, N, de[1], terms, po) <= bm25(rows, N, de[2], terms, po)}
    IN  IF trim(q) = <<>> THEN {<<>>}
        ELSE {Limit([i \in DOMAIN o |->
                        [path |-> o[i].path, rank |-> bm25(rows, N, o[i], terms, po)]],
                    limit) :
                o \in OrderedBy(hits, before)}

\* search.rs lines 87-92: the loop over filename_matches.
push_filename_matches(filename_matches, max) ==
    [i \in 1..(IF max < Len(filename_matches) THEN max ELSE Len(filename_matches)) |->
        [path |-> filename_matches[i], rank |-> FILENAME_RANK, phase |-> "A"]]

\* search.rs: `seen`, the paths of the results pushed so far.
seen(out) == {out[i].path : i \in DOMAIN out}

\* The loop over fts_results without its test of `seen`.
RECURSIVE push_fts_results_no_dedup(_, _, _)
push_fts_results_no_dedup(out, fts_results, max) ==
    IF fts_results = <<>> \/ Len(out) >= max THEN out
    ELSE push_fts_results_no_dedup(
             Append(out, [path |-> Head(fts_results).path,
                          rank |-> Head(fts_results).rank, phase |-> "B"]),
             Tail(fts_results), max)

\* The loop over fts_results putting each result in front.
RECURSIVE push_fts_results_front(_, _, _)
push_fts_results_front(out, fts_results, max) ==
    IF fts_results = <<>> \/ Len(out) >= max THEN out
    ELSE IF Head(fts_results).path \in seen(out)
         THEN push_fts_results_front(out, Tail(fts_results), max)
         ELSE push_fts_results_front(
                  <<[path |-> Head(fts_results).path,
                     rank |-> Head(fts_results).rank, phase |-> "B"]>> \o out,
                  Tail(fts_results), max)

\* search.rs lines 100-109: the loop over fts_results.
RECURSIVE push_fts_results(_, _, _)
push_fts_results(out, fts_results, max) ==
    IF fts_results = <<>> \/ Len(out) >= max THEN out
    ELSE IF Head(fts_results).path \in seen(out)
         THEN push_fts_results(out, Tail(fts_results), max)
         ELSE push_fts_results(
                  Append(out, [path |-> Head(fts_results).path,
                               rank |-> Head(fts_results).rank, phase |-> "B"]),
                  Tail(fts_results), max)

\* search.rs lines 67-71: sanitize the query; nothing to search for returns
\* the empty list.
SearchSanitize ==
    /\ searchPc = "start"
    /\ sanitized' = <<sanitize_query(query)>>
    /\ IF trim(sanitized'[1]) = <<>>
       THEN /\ results' = <<>>
            /\ searchPc' = "done"
       ELSE /\ searchPc' = "phase_a"
            /\ UNCHANGED results
    /\ UNCHANGED <<query, max_results, paths_only, docs, others>>
    /\ UNCHANGED <<fsVars, storeVars, walkVars, indexVars, rootVars, shadowVars, unitVars>>

\* search.rs lines 73-92: phase A, the filename matches of the first word.
SearchPhaseA ==
    /\ searchPc = "phase_a"
    /\ LET filename_query == split_whitespace(sanitized[1])[1]
       IN  \E filename_matches \in
                search_filename_contains(docs, filename_query, max_results) :
             results' = push_filename_matches(filename_matches, max_results)
    /\ searchPc' = IF Len(results') < max_results THEN "phase_b" ELSE "done"
    /\ UNCHANGED <<query, sanitized, max_results, paths_only, docs, others>>
    /\ UNCHANGED <<fsVars, storeVars, walkVars, indexVars, rootVars, shadowVars, unitVars>>

\* Phase B asking the store for the free slots only, seen.len() left out of
\* fts_limit.
SearchPhaseBFreeSlots ==
    /\ searchPc = "phase_b"
    /\ LET fts_limit == max_results - Len(results)
       IN  \E fts_results \in
                db_search(docs, Cardinality(docs) + others, sanitized[1],
                          paths_only, fts_limit) :
             results' = push_fts_results(results, fts_results, max_results)
    /\ searchPc' = "done"
    /\ UNCHANGED <<query, sanitized, max_results, paths_only, docs, others>>
    /\ UNCHANGED <<fsVars, storeVars, walkVars, indexVars, rootVars, shadowVars, unitVars>>

\* search.rs lines 94-112: phase B, the full-text matches for the free slots.
SearchPhaseB ==
    /\ searchPc = "phase_b"
    /\ LET fts_limit == max_results - Len(results) + Cardinality(seen(results))
       IN  \E fts_results \in
                db_search(docs, Cardinality(docs) + others, sanitized[1],
                          paths_only, fts_limit) :
             results' = push_fts_results(results, fts_results, max_results)
    /\ searchPc' = "done"
    /\ UNCHANGED <<query, sanitized, max_results, paths_only, docs, others>>
    /\ UNCHANGED <<fsVars, storeVars, walkVars, indexVars, rootVars, shadowVars, unitVars>>

InitSearch ==
    /\ FsIdle
    /\ StoreIdle
    /\ WalkIdle
    /\ IndexIdle
    /\ RootIdle
    /\ ShadowIdle
    /\ UnitIdle
    /\ query \in Strings(MaxQueryLen) \cup {LongQuery}
    /\ sanitized = <<>>
    /\ max_results \in 0..MaxResults
    /\ paths_only \in BOOLEAN
    /\ docs \in SUBSET SearchDocs
    /\ others \in OtherRows
    /\ results = <<>>
    /\ searchPc = "start"

NextSearch ==
    \/ SearchSanitize
    \/ SearchPhaseA
    \/ SearchPhaseB

SpecSearch == InitSearch /\ [][NextSearch]_vars

\* -------------------------------------------------- claims on the searcher
\* C17 (SpecSearch): for any query and any index content, every phase-A
\* result of the output has rank -1000.0 and that rank is strictly lower than
\* the rank of every phase-B result of the same output.
C17_FilenameRankBelowBm25 ==
    searchPc = "done" =>
        \A i \in DOMAIN results :
            results[i].phase = "A" =>
                /\ results[i].rank = FILENAME_RANK
                /\ \A j \in DOMAIN results :
                     results[j].phase = "B" => results[i].rank < results[j].rank

\* C18 (SpecSearch): in every output of Searcher::search all the results of
\* phase A come before all the results of phase B.
C18_PhaseABeforePhaseB ==
    \A i, j \in DOMAIN results :
        (results[i].phase = "A" /\ results[j].phase = "B") => i < j

\* The search returned a filename match followed by a full-text match.
C18_Witness ==
    /\ searchPc = "done"
    /\ Len(results) = 2
    /\ results[1].phase = "A"
    /\ results[2].phase = "B"

\* C19 (SpecSearch): for every query, index content and max_results >= 0 the
\* search returns at most max_results results and no path twice, also when a
\* file matches both the filename phase and the full-text phase.
C19_BoundedNoDuplicates ==
    /\ Len(results) <= max_results
    /\ \A i, j \in DOMAIN results : results[i].path = results[j].path => i = j

\* The search for a returned max_results results: the file aa, which matches
\* by its name and by its content, once, from phase A, and after it the file
\* b from phase B.
C19_Witness ==
    /\ searchPc = "done"
    /\ sanitized = << <<"a">> >>
    /\ ~paths_only
    /\ \E d \in docs : d.path = << <<"a", "a">> >> /\ <<"a">> \in d.content
    /\ Len(results) = max_results
    /\ Len(results) = 2
    /\ results[1].path = << <<"a", "a">> >> /\ results[1].phase = "A"
    /\ results[2].path = << <<"b">> >> /\ results[2].phase = "B"

\* Every path whose filename matches the first word of the sanitized query:
\* what search_filename_contains returns with no limit.
FilenameMatches ==
    UNION {{o[i] : i \in DOMAIN o} :
              o \in search_filename_contains(docs, split_whitespace(sanitized[1])[1],
                                            Cardinality(docs))}

\* Every path the full-text query matches: what Database::search returns with
\* no limit.
FtsMatches ==
    UNION {{o[i].path : i \in DOMAIN o} :
              o \in db_search(docs, Cardinality(docs) + others, sanitized[1],
                              paths_only, Cardinality(docs))}

\* C38 (SpecSearch): when the search returns fewer than max_results results
\* for a query whose sanitized form is not empty, the results hold every path
\* whose filename matches the phase-A term and every path the phase-B
\* full-text query matches.
C38_NoMatchDroppedWhileSlotsRemain ==
    (/\ searchPc = "done"
     /\ sanitized # <<>>
     /\ trim(sanitized[1]) # <<>>
     /\ Len(results) < max_results) =>
        (FilenameMatches \cup FtsMatches) \subseteq seen(results)

\* C38 witness: a search for up to two results returned one, a filename match
\* that the full-text query matches too, and nothing else matches.
C38_Witness ==
    /\ searchPc = "done"
    /\ sanitized # <<>>
    /\ trim(sanitized[1]) # <<>>
    /\ max_results = 2
    /\ Len(results) = 1
    /\ results[1].phase = "A"
    /\ results[1].path \in FtsMatches
    /\ Cardinality(docs) > 1

\* ===================================================================
\* Part VII: functions applied on their own
\* ===================================================================

\* No function was applied yet.
NoOutput == <<>>

\* ------------------------------------------------ indexer.rs read_file_content
\* The largest u64 in the unit of the sizes below.
SizeMax == 4

ByteSizes == 0..SizeMax

\* u64::saturating_add
saturating_add(a, b) == IF a + b > SizeMax THEN SizeMax ELSE a + b

\* The file a walker entry names: the length its metadata reports, whether
\* File::open succeeds, the length of the file when it is read, and whether
\* its bytes are UTF-8.
ReadInputs ==
    [max_file_size : ByteSizes, metadata_len : ByteSizes, open_ok : BOOLEAN,
     len_at_read : ByteSizes, utf8 : BOOLEAN]

\* read_file_content without the check of lines 338-340.
read_file_content_unchecked(i, size) ==
    IF size > i.max_file_size THEN [err |-> "FileTooLarge", len |-> 0]
    ELSE IF ~i.open_ok THEN [err |-> "Io", len |-> 0]
    ELSE IF ~i.utf8 THEN [err |-> "InvalidUtf8", len |-> 0]
    ELSE [err |-> "none", len |-> i.len_at_read]

\* indexer.rs lines 316-345: the content read, as its length in bytes, or the
\* error.
read_file_content(i, size) ==
    IF size > i.max_file_size THEN [err |-> "FileTooLarge", len |-> 0]
    ELSE IF ~i.open_ok THEN [err |-> "Io", len |-> 0]
    ELSE LET read_limit == saturating_add(i.max_file_size, 1)
             bytes == IF i.len_at_read < read_limit THEN i.len_at_read
                      ELSE read_limit
         IN  IF bytes > i.max_file_size THEN [err |-> "FileTooLarge", len |-> 0]
             ELSE IF ~i.utf8 THEN [err |-> "InvalidUtf8", len |-> 0]
             ELSE [err |-> "none", len |-> bytes]

\* indexer.rs process_entry lines 257-304 on a regular file: the size check on
\* the metadata, the read, the upsert.
ProcessFile ==
    /\ input \in ReadInputs
    /\ output = NoOutput
    /\ output' =
          IF input.metadata_len > input.max_file_size
          THEN [stored |-> FALSE, content_len |-> 0, files_skipped |-> 1,
                files_indexed |-> 0]
          ELSE LET c == read_file_content(input, input.metadata_len)
               IN  IF c.err # "none"
                   THEN [stored |-> FALSE, content_len |-> 0, files_skipped |-> 1,
                         files_indexed |-> 0]
                   ELSE [stored |-> TRUE, content_len |-> c.len, files_skipped |-> 0,
                         files_indexed |-> 1]
    /\ UNCHANGED input
    /\ UNCHANGED <<fsVars, storeVars, walkVars, indexVars, rootVars, searchVars,
                   shadowVars>>

InitRead ==
    /\ FsIdle
    /\ StoreIdle
    /\ WalkIdle
    /\ IndexIdle
    /\ RootIdle
    /\ SearchIdle
    /\ ShadowIdle
    /\ input \in ReadInputs
    /\ output = NoOutput

NextRead == ProcessFile

SpecRead == InitRead /\ [][NextRead]_vars

\* C23 (SpecRead): no record is stored with content longer than max_file_size
\* bytes, also when the file grows between the size check on the metadata and
\* the read; a file found larger at either point is skipped and counted in
\* files_skipped.
C23_ContentWithinMaxFileSize ==
    output # NoOutput =>
        /\ output.stored => output.content_len <= input.max_file_size
        /\ (\/ input.metadata_len > input.max_file_size
            \/ input.open_ok /\ input.len_at_read > input.max_file_size) =>
               /\ ~output.stored
               /\ output.files_skipped = 1
               /\ output.files_indexed = 0

\* C23 witness: a file within the limit at the size check, of valid UTF-8,
\* that is larger than the limit when it is read: it was skipped and counted.
C23_Witness ==
    /\ output # NoOutput
    /\ input.metadata_len <= input.max_file_size
    /\ input.open_ok /\ input.utf8
    /\ input.len_at_read > input.max_file_size
    /\ ~output.stored
    /\ output.files_skipped = 1

\* ------------------------------------------- db.rs search_filename_contains
MaxTermLen == 2

\* The rows of table files a filename search may meet: names with the LIKE
\* wildcards in them, in either case, of different lengths.
FilenameRows ==
    {[path |-> << <<"d">>, <<"a", "_">> >>],
     [path |-> << <<"A", "_", "b">> >>],
     [path |-> << <<"a", "b">> >>],
     [path |-> << <<"d">>, <<"b", "a", "_">> >>],
     [path |-> << <<"a", "%">> >>]}

FilenameQueries ==
    UNION {[1..k -> {"a", "A", "_", "%", "\\", "*"}] : k \in 0..MaxTermLen}

FilenameInputs ==
    [rows : SUBSET FilenameRows, q : FilenameQueries, limit : 0..MaxResults]

\* db.rs lines 450-490: one of the lists the SELECT may return.
SearchFilenameContains ==
    /\ input \in FilenameInputs
    /\ output = NoOutput
    /\ \E paths \in search_filename_contains(input.rows, input.q, input.limit) :
          output' = [paths |-> paths]
    /\ UNCHANGED input
    /\ UNCHANGED <<fsVars, storeVars, walkVars, indexVars, rootVars, searchVars,
                   shadowVars>>

InitFilename ==
    /\ FsIdle
    /\ StoreIdle
    /\ WalkIdle
    /\ IndexIdle
    /\ RootIdle
    /\ SearchIdle
    /\ ShadowIdle
    /\ input \in FilenameInputs
    /\ output = NoOutput

NextFilename == SearchFilenameContains

SpecFilename == InitFilename /\ [][NextFilename]_vars

\* C26 (SpecFilename): search_filename_contains(q, limit) returns at most
\* limit paths; the filename of each contains q, its trailing '*' stripped, as
\* a literal substring up to the case of letters, '%' and '_' standing for
\* themselves; filenames equal to q come first, then those starting with q,
\* then the others, and the shorter first within each group.
C26_FilenameMatchesInOrder ==
    output # NoOutput =>
        LET paths == output.paths
            term == lower(trim_end_matches(trim(input.q), "*"))
            name(i) == lower(file_name(paths[i]))
            contains(str) ==
                \E k \in 0..(Len(str) - Len(term)) :
                    SubSeq(str, k + 1, k + Len(term)) = term
            group(str) ==
                IF str = term THEN 0 ELSE IF starts_with(str, term) THEN 1 ELSE 2
        IN  /\ Len(paths) <= input.limit
            /\ \A i \in DOMAIN paths :
                  /\ [path |-> paths[i]] \in input.rows
                  /\ term # <<>>
                  /\ contains(name(i))
            /\ \A i, j \in DOMAIN paths :
                  i < j =>
                     \/ group(name(i)) < group(name(j))
                     \/ /\ group(name(i)) = group(name(j))
                        /\ Len(name(i)) <= Len(name(j))

\* C26 witness: the query "A_" on all the rows with limit 2: the filename
\* "a_" that equals it came first, the filename "A_b" that starts with it
\* second, and "ab" and "ba_" were left out.
C26_Witness ==
    /\ output # NoOutput
    /\ input.rows = FilenameRows
    /\ input.q = <<"A", "_">>
    /\ input.limit = 2
    /\ output.paths = << << <<"d">>, <<"a", "_">> >>, << <<"A", "_", "b">> >> >>

\* ------------------------------- health.rs check_health_fast, find_project_root
\* start_dir.ancestors() yields at most MaxProbeDepth directories here.
MaxProbeDepth == 2

\* A directory as the probes meet it: what its <DB_NAME> holds, whether that
\* database is in WAL mode (every database this program builds is, db.rs line
\* 30), and whether <DB_NAME>-shm and <DB_NAME>-wal exist (they do not after
\* the last connection was closed, nor after an atomic swap).
ProbeDirs ==
    {[db |-> d, wal |-> w, aux |-> a] :
        d \in RootDbs, w \in BOOLEAN, a \in BOOLEAN}
    \ {dir \in [db : RootDbs, wal : BOOLEAN, aux : BOOLEAN] :
          dir.db.kind # "db" /\ (dir.wal \/ dir.aux)}

ProbeInputs == UNION {[1..n -> ProbeDirs] : n \in 1..MaxProbeDepth}

\* db.rs open_readonly lines 583-594 and the first statement on the
\* connection: SQLite reads a WAL-mode database through its -shm and -wal, and
\* a connection opened with SQLITE_OPEN_READ_ONLY creates them when they are
\* missing and leaves them when it closes.  The main file is not written.
open_readonly(dir) ==
    IF dir.db.kind = "db" /\ dir.wal THEN [dir EXCEPT !.aux = TRUE] ELSE dir

\* health.rs check_health_fast lines 240-272 on the first directory.
ProbeHealth ==
    /\ input \in ProbeInputs
    /\ output = NoOutput
    /\ output' = [fn |-> "check_health_fast",
                  ret |-> check_health_fast(input[1].db),
                  dirs |-> [input EXCEPT ![1] = open_readonly(@)]]
    /\ UNCHANGED input
    /\ UNCHANGED <<fsVars, storeVars, walkVars, indexVars, rootVars, searchVars,
                   shadowVars>>

\* health.rs find_project_root lines 188-215: is_valid_ffts_database opens
\* every ancestor's database up to the first valid one.
ProbeRoot ==
    /\ input \in ProbeInputs
    /\ output = NoOutput
    /\ LET valid == {k \in DOMAIN input : is_valid_ffts_database(input[k].db)}
           last == IF valid = {} THEN Len(input)
                   ELSE CHOOSE k \in valid : \A j \in valid : k <= j
       IN  output' = [fn |-> "find_project_root",
                      ret |-> IF valid = {} THEN "none" ELSE "ExistingDatabase",
                      dirs |-> [k \in DOMAIN input |->
                                  IF k <= last THEN open_readonly(input[k])
                                  ELSE input[k]]]
    /\ UNCHANGED input
    /\ UNCHANGED <<fsVars, storeVars, walkVars, indexVars, rootVars, searchVars,
                   shadowVars>>

InitProbe ==
    /\ FsIdle
    /\ StoreIdle
    /\ WalkIdle
    /\ IndexIdle
    /\ RootIdle
    /\ SearchIdle
    /\ ShadowIdle
    /\ input \in ProbeInputs
    /\ output = NoOutput

NextProbe ==
    \/ ProbeHealth
    \/ ProbeRoot

SpecProbe == InitProbe /\ [][NextProbe]_vars

\* C27 (SpecProbe): check_health_fast and find_project_root are read-only:
\* whatever the databases hold, after the call every directory holds the
\* files it held before, none created, modified, renamed or deleted.
C27_ProbesChangeNoFile == output # NoOutput => output.dirs = input

\* ------------------------------------------- main.rs run_search, the dispatch
\* The project directory a search starts in: what <DB_NAME> holds, whether it
\* is in WAL mode (every database this program made is: db.rs line 118 with
\* the journal_mode of main.rs line 79) and whether its -shm/-wal exist.
DispatchDirs ==
    {dir \in [db : InitialDbs, wal : BOOLEAN, aux : BOOLEAN] :
        /\ dir.db.kind # "db" => ~dir.wal /\ ~dir.aux
        /\ (dir.db.kind = "db" /\ dir.db.app = APPLICATION_ID_I32) => dir.wal
        /\ dir.aux => dir.wal}

DispatchInputs == [dir : DispatchDirs, opts : SearchOpts]

\* main.rs lines 394-461: check_health_fast(project_dir) and the match on it;
\* `goes` is where the flow continues, "done" for a return with an error code.
RunSearchDispatch ==
    /\ input \in DispatchInputs
    /\ output = NoOutput
    /\ LET health == check_health_fast(input.dir.db)
       IN  output' = [fn |-> "run_search",
                      health |-> health,
                      goes |-> SearchDispatch(health, input.opts),
                      classes |-> recovery_classes(health),
                      dir |-> open_readonly(input.dir)]
    /\ UNCHANGED input
    /\ UNCHANGED <<fsVars, storeVars, walkVars, indexVars, rootVars, searchVars,
                   shadowVars>>

InitDispatch ==
    /\ FsIdle
    /\ StoreIdle
    /\ WalkIdle
    /\ IndexIdle
    /\ RootIdle
    /\ SearchIdle
    /\ ShadowIdle
    /\ input \in DispatchInputs
    /\ output = NoOutput

NextDispatch == RunSearchDispatch

SpecDispatch == InitDispatch /\ [][NextDispatch]_vars

\* C34 (SpecDispatch): the search flow goes to auto_init only on Missing or
\* Empty and to backup_and_reinit only on SchemaInvalid or Corrupted, and to
\* neither when auto-init is disabled; on WrongApplicationId or Unreadable,
\* and on any health but Healthy when auto-init is disabled, it returns an
\* error code without searching and the directory holds the database files
\* it held before, none created, renamed, deleted or written.
C34_DispatchByHealth ==
    output # NoOutput =>
        /\ output.goes = "ai_clean" =>
              output.health \in {"Missing", "Empty"} /\ ~input.opts.no_auto_init
        /\ output.goes = "br_rename" =>
              output.health \in {"SchemaInvalid", "Corrupted"} /\ ~input.opts.no_auto_init
        /\ (\/ output.health \in {"WrongApplicationId", "Unreadable"}
            \/ output.health # "Healthy" /\ input.opts.no_auto_init) =>
              /\ output.goes = "done"
              /\ output.dir = input.dir

\* C39 (SpecDispatch): every variant of DatabaseHealth satisfies exactly one
\* of is_usable, needs_init, needs_reinit and is_unrecoverable, and the
\* dispatch of the search flow on the health it found takes the one path of
\* that class: the search, auto_init, backup_and_reinit, or the error return.
C39_ExactlyOneRecoveryClass ==
    /\ \A h \in DatabaseHealth : Cardinality(recovery_classes(h)) = 1
    /\ output # NoOutput =>
          /\ output.health \in DatabaseHealth
          /\ Cardinality(output.classes) = 1
          /\ ~input.opts.no_auto_init =>
                /\ output.goes \in {"rs_open", "ii_open"} <=> is_usable(output.health)
                /\ output.goes = "ai_clean" <=> needs_init(output.health)
                /\ output.goes = "br_rename" <=> needs_reinit(output.health)
                /\ output.goes = "done" <=> is_unrecoverable(output.health)

\* C39 witness: the flow found a database it could not open, which is
\* unrecoverable and nothing else, and returned.
C39_Witness ==
    /\ output # NoOutput
    /\ output.health = "Unreadable"
    /\ output.classes = {"is_unrecoverable"}
    /\ ~input.opts.no_auto_init
    /\ output.goes = "done"

\* ------------------------------------------------------ db.rs migrate_schema
\* The objects check_schema looks for in sqlite_master (db.rs lines 599-611).
SchemaObjects ==
    {"files", "files_fts", "files_ai", "files_au", "files_ad",
     "idx_files_mtime", "idx_files_path", "idx_files_hash"}

\* The value of a column that was added and not yet set.
NULL == "NULL"

\* The records a database may hold, one per path, before they have a filename.
LegacyRows ==
    {[id |-> 1, path |-> <<"a.rs">>, filename |-> NULL,
      content_hash |-> wyhash("x"), mtime |-> 100, size |-> 1, indexed_at |-> 0,
      content |-> "x"],
     [id |-> 2, path |-> <<"d", "a.rs">>, filename |-> NULL,
      content_hash |-> wyhash("y"), mtime |-> 200, size |-> 1, indexed_at |-> 0,
      content |-> "y"],
     [id |-> 3, path |-> <<"d", "e", "b.rs">>, filename |-> NULL,
      content_hash |-> wyhash("z"), mtime |-> 100, size |-> 2, indexed_at |-> 1,
      content |-> "z"]}

\* An entry of the FTS index: the row it was built from and which copy of it
\* this is (an index may hold the same row more than once).
FtsEntry(r, copy) ==
    [rowid |-> r.id, filename |-> r.filename, path |-> r.path,
     content |-> r.content, copy |-> copy]

\* A database: whether table files has the filename column, its rows, the
\* objects of sqlite_master, the number of columns of files_fts and its
\* entries.
SchemaDb(has_filename, rows, objects, fts_columns, entries) ==
    [has_filename |-> has_filename, files |-> rows, objects |-> objects,
     fts_columns |-> fts_columns, fts |-> entries]

\* The databases of the version before the filename column (integration.rs
\* lines 1271-1323): table files and the two-column files_fts, any of the
\* triggers, the indexes or not; and the databases of this version.
MigrateInputs ==
    {SchemaDb(FALSE, rows, {"files", "files_fts"} \cup triggers \cup indexes, 2,
              {FtsEntry(r, 1) : r \in rows}) :
        rows \in SUBSET LegacyRows,
        triggers \in SUBSET {"files_ai", "files_au", "files_ad"},
        indexes \in {{}, {"idx_files_mtime", "idx_files_path", "idx_files_hash"}}}
    \cup
    {SchemaDb(TRUE, {[r EXCEPT !.filename = file_name(r.path)] : r \in rows},
              SchemaObjects, 3,
              {FtsEntry([r EXCEPT !.filename = file_name(r.path)], 1) : r \in rows}) :
        rows \in SUBSET LegacyRows}

\* migrate_schema that leaves the old files_fts in place.
migrate_schema_keeps_fts(d) ==
    IF d.has_filename THEN d
    ELSE [d EXCEPT !.has_filename = TRUE,
                   !.files = {[r EXCEPT !.filename = file_name(r.path)] : r \in @},
                   !.objects = @ \ {"files_ai", "files_au", "files_ad"}]

\* db.rs migrate_schema lines 154-220: ALTER TABLE ADD COLUMN, the filename of
\* every row set from its path, the triggers and files_fts dropped.  (An old
\* files_au trigger fires on the UPDATEs and rewrites entries of the old
\* files_fts, which is dropped with all its entries.)
migrate_schema(d) ==
    IF d.has_filename THEN d
    ELSE [d EXCEPT !.has_filename = TRUE,
                   !.files = {[r EXCEPT !.filename = file_name(r.path)] : r \in @},
                   !.objects = @ \ {"files_ai", "files_au", "files_ad", "files_fts"},
                   !.fts_columns = 0,
                   !.fts = {}]

\* db.rs init_schema lines 248-334: every object is created unless one of its
\* name exists.
init_schema(d) ==
    [d EXCEPT !.has_filename = IF "files" \in d.objects THEN @ ELSE TRUE,
              !.fts_columns = IF "files_fts" \in d.objects THEN @ ELSE 3,
              !.objects = SchemaObjects]

\* db.rs rebuild_fts_index lines 229-242: INSERT INTO files_fts ... SELECT ...
\* FROM files adds one entry per row.
rebuild_fts_index(d) ==
    [d EXCEPT !.fts = @ \cup
        {FtsEntry(r, 1 + Cardinality({t \in d.fts : t.rowid = r.id})) : r \in d.files}]

MigrateSchema ==
    /\ input \in MigrateInputs
    /\ output = NoOutput
    /\ output' = [step |-> "migrate_schema", db |-> migrate_schema(input)]
    /\ UNCHANGED input
    /\ UNCHANGED <<fsVars, storeVars, walkVars, indexVars, rootVars, searchVars,
                   shadowVars>>

InitSchema ==
    /\ input \in MigrateInputs
    /\ output # NoOutput
    /\ output.step = "migrate_schema"
    /\ output' = [step |-> "init_schema", db |-> init_schema(output.db)]
    /\ UNCHANGED input
    /\ UNCHANGED <<fsVars, storeVars, walkVars, indexVars, rootVars, searchVars,
                   shadowVars>>

RebuildFtsIndex ==
    /\ input \in MigrateInputs
    /\ output # NoOutput
    /\ output.step = "init_schema"
    /\ output' = [step |-> "rebuild_fts_index", db |-> rebuild_fts_index(output.db)]
    /\ UNCHANGED input
    /\ UNCHANGED <<fsVars, storeVars, walkVars, indexVars, rootVars, searchVars,
                   shadowVars>>

InitMigrate ==
    /\ FsIdle
    /\ StoreIdle
    /\ WalkIdle
    /\ IndexIdle
    /\ RootIdle
    /\ SearchIdle
    /\ ShadowIdle
    /\ input \in MigrateInputs
    /\ output = NoOutput

NextMigrate ==
    \/ MigrateSchema
    \/ InitSchema
    \/ RebuildFtsIndex

SpecMigrate == InitMigrate /\ [][NextMigrate]_vars

\* C28 (SpecMigrate): on a database without the filename column,
\* migrate_schema, init_schema and rebuild_fts_index in this order keep every
\* record, set each filename to the last segment of the path, and leave a
\* complete schema with exactly one FTS entry per record; migrate_schema on a
\* database that has the column changes nothing.
C28_MigrationPreservesRecords ==
    output # NoOutput =>
        /\ (input.has_filename /\ output.step = "migrate_schema") => output.db = input
        /\ (~input.has_filename /\ output.step = "rebuild_fts_index") =>
              LET d == output.db
              IN  /\ {[r EXCEPT !.filename = NULL] : r \in d.files} = input.files
                  /\ \A r \in d.files : r.filename = r.path[Len(r.path)]
                  /\ d.has_filename
                  /\ d.objects = SchemaObjects
                  /\ d.fts_columns = 3
                  /\ \A r \in d.files :
                        {t \in d.fts : t.rowid = r.id} = {FtsEntry(r, 1)}
                  /\ \A t \in d.fts : \E r \in d.files : t.rowid = r.id

\* C28 witness: the three steps ran on a database of the old version that
\* held the three records and the insert trigger only.
C28_Witness ==
    /\ output # NoOutput
    /\ output.step = "rebuild_fts_index"
    /\ ~input.has_filename
    /\ input.files = LegacyRows
    /\ input.objects = {"files", "files_fts", "files_ai"}
    /\ Cardinality(output.db.fts) = 3

\* ------------------------------------------------ indexer.rs is_database_file
\* A file name has at most MaxNameParts of the parts below.
MaxNameParts == 3

\* lib.rs: DB_NAME, DB_SHM_SUFFIX, DB_WAL_SUFFIX, DB_TMP_SUFFIX, as their
\* characters.
DB_NAME == <<".", "f", "f", "t", "s", "-", "i", "n", "d", "e", "x", ".", "d", "b">>

DB_SHM_SUFFIX == <<"-", "s", "h", "m">>

DB_WAL_SUFFIX == <<"-", "w", "a", "l">>

DB_TMP_SUFFIX == <<".", "t", "m", "p">>

\* A byte that is no UTF-8: a file name is a sequence of bytes to the
\* filesystem.
InvalidByte == "0xFF"

\* The parts file names are made of.
NameParts ==
    {DB_NAME, DB_SHM_SUFFIX, DB_WAL_SUFFIX, DB_TMP_SUFFIX, <<".", "d", "b">>,
     <<".", "s", "q", "l", "i", "t", "e">>, <<"3">>, <<"a">>, <<InvalidByte>>}

RECURSIVE Concat(_)
Concat(parts) == IF parts = <<>> THEN <<>> ELSE Head(parts) \o Concat(Tail(parts))

FileNames == {Concat(parts) : parts \in UNION {[1..n -> NameParts] : n \in 1..MaxNameParts}}

\* str::ends_with(&str)
str_ends_with(str, suffix) ==
    Len(suffix) <= Len(str)
    /\ SubSeq(str, Len(str) - Len(suffix) + 1, Len(str)) = suffix

\* str::contains(&str)
str_contains(str, pat) ==
    \E i \in 0..(Len(str) - Len(pat)) : SubSeq(str, i + 1, i + Len(pat)) = pat

\* OsStr::to_str: the name as a set, {} when it is not valid UTF-8.
to_str(name) == IF \E i \in DOMAIN name : name[i] = InvalidByte THEN {} ELSE {name}

\* indexer.rs is_database_file lines 382-414.
is_database_name(name) ==
    IF to_str(name) = {} THEN FALSE
    ELSE \/ str_ends_with(name, DB_SHM_SUFFIX) \/ str_ends_with(name, DB_WAL_SUFFIX)
         \/ name = DB_NAME
         \/ str_ends_with(name, <<".", "d", "b", ".", "t", "m", "p">>)
         \/ starts_with(name, DB_NAME) /\ str_contains(name, DB_TMP_SUFFIX)
         \/ str_ends_with(name, <<".", "d", "b">>)
         \/ str_ends_with(name, <<".", "s", "q", "l", "i", "t", "e">>)
         \/ str_ends_with(name, <<".", "s", "q", "l", "i", "t", "e", "3">>)

\* indexer.rs process_entry lines 207-304 on a regular file of text within the
\* size limit: skipped when is_database_file says so, else read and stored.
ProcessNamed ==
    /\ input \in FileNames
    /\ output = NoOutput
    /\ output' = IF is_database_name(input)
                 THEN [read |-> FALSE, stored |-> FALSE]
                 ELSE [read |-> TRUE, stored |-> TRUE]
    /\ UNCHANGED input
    /\ UNCHANGED <<fsVars, storeVars, walkVars, indexVars, rootVars, searchVars,
                   shadowVars>>

InitNamed ==
    /\ FsIdle
    /\ StoreIdle
    /\ WalkIdle
    /\ IndexIdle
    /\ RootIdle
    /\ SearchIdle
    /\ ShadowIdle
    /\ input \in FileNames
    /\ output = NoOutput

NextNamed == ProcessNamed

SpecNamed == InitNamed /\ [][NextNamed]_vars

\* C29 (SpecNamed): no walker entry is read or stored whose file name is
\* DB_NAME, ends with -shm or -wal, is a temp database name (DB_NAME.tmp,
\* DB_NAME.tmp.<unique>, any name ending in .db.tmp), or ends with .db, .sqlite
\* or .sqlite3.
C29_DatabaseFilesNeverRead ==
    (output # NoOutput
     /\ \/ input = DB_NAME
        \/ str_ends_with(input, DB_SHM_SUFFIX)
        \/ str_ends_with(input, DB_WAL_SUFFIX)
        \/ starts_with(input, DB_NAME \o DB_TMP_SUFFIX)
        \/ str_ends_with(input, <<".", "d", "b", ".", "t", "m", "p">>)
        \/ str_ends_with(input, <<".", "d", "b">>)
        \/ str_ends_with(input, <<".", "s", "q", "l", "i", "t", "e">>)
        \/ str_ends_with(input, <<".", "s", "q", "l", "i", "t", "e", "3">>))
    => ~output.read /\ ~output.stored

\* ---------------------------------- indexer.rs index_directory, run after run
\* What a path of the project holds: no file, or a file of some content that
\* process_entry stores ("ok") or skips.
DiskFiles ==
    {[kind |-> "none", content |-> "x"]}
    \cup [kind : {"ok", "FileTooLarge", "InvalidUtf8"}, content : Contents]

\* The project at the time of an earlier run and now.
IncrementalInputs == [before : [Paths -> DiskFiles], now : [Paths -> DiskFiles]]

\* indexer.rs lines 122-178, every statement succeeding: the entries of the
\* walk, one after the other (parents before their directories' files), each
\* stored by upsert_file when process_entry accepts it.
RECURSIVE index_entries(_, _, _, _)
index_entries(st, d, entries, now) ==
    IF entries = {} THEN st
    ELSE LET path == CHOOSE p \in entries : \A q \in entries : Len(p) <= Len(q)
             stored == [ret |-> "upsert", skipped |-> 0] \in process_entry(d[path].kind)
         IN  index_entries(IF stored
                           THEN upsert_file(st, path, d[path].content, 100, 1, now)
                           ELSE st,
                           d, entries \ {path}, now)

\* indexer.rs index_directory lines 105-204, every statement succeeding: each
\* entry of the walk goes through process_entry, then prune_missing_files.
index_directory_on(st, d, now) ==
    LET present == {p \in Paths : d[p].kind # "none"}
        after == index_entries(st, d, present, now)
    IN  prune_missing_files(Store(after.files, after.fts, {}), present)

\* The database an earlier run on the project left.
PopulatedStore(d) == index_directory_on(Store({}, {}, {}), d, 0)

\* index_directory on the database of the earlier run.
IndexDirectoryAgain ==
    /\ input \in IncrementalInputs
    /\ output = NoOutput
    /\ LET prior == PopulatedStore(input.before)
           st == index_directory_on(Store(prior.files, prior.fts, {}), input.now, 1)
       IN  output' = [ret |-> "Ok", prior |-> prior.files, files |-> st.files,
                      fts |-> st.fts]
    /\ UNCHANGED input
    /\ UNCHANGED <<fsVars, storeVars, walkVars, indexVars, rootVars, searchVars,
                   shadowVars>>

InitIncremental ==
    /\ FsIdle
    /\ StoreIdle
    /\ WalkIdle
    /\ IndexIdle
    /\ RootIdle
    /\ SearchIdle
    /\ ShadowIdle
    /\ input \in IncrementalInputs
    /\ output = NoOutput

NextIncremental == IndexDirectoryAgain

SpecIncremental == InitIncremental /\ [][NextIncremental]_vars

\* C37 (SpecIncremental): after index_directory returned success on a
\* database that already held records, the paths of the records are the paths
\* of the files the walk yields and process_entry accepts, and each record
\* holds the content its file has on disk.
C37_RecordsMatchAcceptedFiles ==
    (output # NoOutput /\ output.ret = "Ok" /\ output.prior # {}) =>
        /\ {r.path : r \in output.files} = {p \in Paths : input.now[p].kind = "ok"}
        /\ \A r \in output.files : r.content = input.now[r.path].content

====
